---------------------------- MODULE Spec2Model ----------------------------
(***************************************************************************)
(* State-machine model of the two ForestEnv classes of iland-model:        *)
(*   - the continuous environment   (src/forest_env.py)                    *)
(*   - the grid-walker environment  (src/iland_atari_env.py)               *)
(*                                                                         *)
(* Number conventions                                                      *)
(*   - An action component a in [-1,1] is given by an index i in           *)
(*     0..ActRes, a = -1 + 2*i/ActRes.                                     *)
(*   - A continuous coordinate is the numerator of a fraction over ActRes: *)
(*     the coordinate c stands for the real number c/ActRes grid units.    *)
(*   - Masses are whole kilograms; carbon, rewards and penalties are in    *)
(*     tenths of a kilogram (so the factor 0.5 is a multiplication by 5    *)
(*     and -10.0 is -100).                                                 *)
(***************************************************************************)
EXTENDS Integers, Sequences, FiniteSets, TLC

VARIABLES
    variant,              \* which class was constructed: "continuous" | "walker"
    seedlings_planted,    \* forest_env.ForestEnv.seedlings_planted
    previous_carbon,      \* ForestEnv.previous_carbon (both classes)
    num_failed_plantings, \* forest_env.ForestEnv.num_failed_plantings
    keepout,              \* forest_env.ForestEnv.keepout, keepout[<<row, col>>]
    total_seedlings,      \* forest_env.ForestEnv.total_seedlings
    seedlings,            \* iland_atari_env.ForestEnv.seedlings
    agent_location,       \* iland_atari_env.ForestEnv._agent_location, << >> before reset
    num_seedlings,        \* iland_atari_env.ForestEnv.num_seedlings
    output_db,            \* content of the simulator output database output.sqlite
    io,                   \* the file and process operations the last call performed
    ret,                  \* what the last call returned or raised
    episode,              \* the caller's count of the steps since the last reset
    disk,                 \* the files of the machine the instances run on
    envs,                 \* the environment instances running side by side
    call,                 \* a function of the module applied on its own
    config,               \* the constructor arguments the instance keeps
    history               \* what the caller has recorded of the calls so far

contVars == <<seedlings_planted, num_failed_plantings, keepout, total_seedlings>>
walkerVars == <<seedlings, agent_location, num_seedlings>>
vars == <<variant, seedlings_planted, previous_carbon, num_failed_plantings,
          keepout, total_seedlings, seedlings, agent_location, num_seedlings,
          output_db, io, ret, episode, disk, envs, call, config, history>>

(***************************************************************************)
(* Bounds of the model.                                                    *)
(***************************************************************************)
GridSize == 2           \* grid_size given to the constructor
ActRes == 1             \* resolution of an action component
MaxTarget == 2          \* num_seedlings given to the constructor is in 1..MaxTarget
MaxPlanted == 2         \* steps that commit are explored up to this many seedlings
MaxFailCount == 11      \* SpecBudget: invalid steps are explored up to this counter value
MaxFailWide == 1        \* Spec: invalid steps are explored up to this counter value
MaxRows == 3            \* SpecFunctions: tree tables of up to this many rows
MaxRegistry == 3        \* SpecFunctions: registries of up to this many seedlings
SpeciesRes == 8         \* SpecDecode: resolution of the species component
MaxSpeciesCount == 6    \* SpecDecode: species lists of up to this many names
MaxCrowded == 3         \* SpecSpacing: targets and registries of up to this many seedlings

(***************************************************************************)
(* Program constants.                                                      *)
(***************************************************************************)
Background == 255            \* intensity random_shapes gives a pixel outside every shape
MaxFailedPlantings == 10     \* truncated = num_failed_plantings > 10
InvalidPlantingReward == -100  \* reward = -10.0
SimulationFailedReward == -100 \* reward = -10.0
InvalidOutputReward == -50     \* reward = -5.0

SpeciesNames == <<"piab", "fasy">>

Min(a, b) == IF a < b THEN a ELSE b
Max(a, b) == IF a > b THEN a ELSE b

Cells == 0 .. (GridSize - 1)
GridCells == Cells \X Cells

ActionSpace == (0 .. ActRes) \X (0 .. ActRes) \X (0 .. ActRes)

(***************************************************************************)
(* Simulator output: rows of the tree table.                               *)
(***************************************************************************)
TreeRow(year, stem, branch, coarse, fine, foliage) ==
    [year |-> year, stemMass |-> stem, branchMass |-> branch,
     coarseRootMass |-> coarse, fineRootMass |-> fine, foliageMass |-> foliage]

\* Two trees of 100 kg combined mass in the final year, after an earlier year's row.
RowsA == << TreeRow(9, 30, 10, 5, 1, 3), TreeRow(10, 40, 10, 8, 2, 7),
            TreeRow(10, 25, 8, 5, 2, 4) >>

NoDatabase == [exists |-> FALSE, has_tree |-> FALSE, rows |-> << >>]
NoTreeTable == [exists |-> TRUE, has_tree |-> FALSE, rows |-> << >>]
TreeTable(rows) == [exists |-> TRUE, has_tree |-> TRUE, rows |-> rows]

DbContents == {NoDatabase, NoTreeTable, TreeTable(<< >>), TreeTable(RowsA)}

RECURSIVE SumField(_, _, _)
\* data[data["year"] == year][f].sum()
SumField(rows, year, f) ==
    IF rows = << >> THEN 0
    ELSE (IF Head(rows).year = year THEN Head(rows)[f] ELSE 0)
         + SumField(Tail(rows), year, f)

\* read_table: None when the file is missing or the query raises
ReadTable(db) ==
    IF ~db.exists THEN [none |-> TRUE, rows |-> << >>]
    ELSE IF ~db.has_tree THEN [none |-> TRUE, rows |-> << >>]
    ELSE [none |-> FALSE, rows |-> db.rows]

\* a faulty get_total_carbon that counts the foliage too; C19 is tested
\* against it
GetTotalCarbonWithFoliage(data, year) ==
    (SumField(data, year, "branchMass") + SumField(data, year, "stemMass")
     + SumField(data, year, "coarseRootMass") + SumField(data, year, "fineRootMass")
     + SumField(data, year, "foliageMass")) * 5

\* get_total_carbon, in tenths of a kilogram
GetTotalCarbon(data, year) ==
    LET total_branch_mass == SumField(data, year, "branchMass")
        total_stem_mass == SumField(data, year, "stemMass")
        total_coarse_root_mass == SumField(data, year, "coarseRootMass")
        total_fine_root_mass == SumField(data, year, "fineRootMass")
    IN (total_branch_mass + total_stem_mass + total_coarse_root_mass
        + total_fine_root_mass) * 5

RECURSIVE MaxYear(_)
\* tree_data["year"].max(); NaN (here -1, equal to no row's year) for no rows
MaxYear(rows) ==
    IF rows = << >> THEN -1 ELSE Max(Head(rows).year, MaxYear(Tail(rows)))

\* read_output: (tree_data, total_carbon)
ReadOutput(db) ==
    LET tree_data == ReadTable(db)
    IN IF tree_data.none THEN [none |-> TRUE, total_carbon |-> 0]
       ELSE [none |-> FALSE,
             total_carbon |-> GetTotalCarbon(tree_data.rows, MaxYear(tree_data.rows))]

(***************************************************************************)
(* Keepout mask.                                                           *)
(***************************************************************************)
\* Images random_shapes may return: pixels inside a shape are below 255.
\* The shapes explored are the rectangles that touch the grid's origin.
RandomShapes ==
    { [c \in GridCells |-> IF c[1] < h /\ c[2] < w THEN 0 ELSE Background] :
        h \in 1 .. GridSize, w \in 1 .. GridSize }

MaskModes == {"exclusion", "inclusion"}

\* get_random_keepout_mask; mode is the outcome of random.random() < 0.5
GetRandomKeepoutMask(mode, image) ==
    IF mode = "exclusion"
    THEN [c \in GridCells |-> image[c] < 255]
    ELSE [c \in GridCells |-> image[c] = 255]

(***************************************************************************)
(* Action decoding (step, lines 334-351).                                  *)
(***************************************************************************)
\* x = ((action[0] + 1) / 2) * grid_size, as a numerator over ActRes
DecodeCoord(i) == i * GridSize

\* species_idx = max(0, min(int(species_norm * (n - 1)), n - 1)) for the
\* action component of index i at resolution res (species_norm = i / res) and
\* n species names; int() drops the fraction of a number that is not negative
DecodeSpeciesIdx(i, res, n) ==
    LET species_idx == (i * (n - 1)) \div res
    IN Max(0, Min(species_idx, n - 1))

\* the species index step decodes for the species explored
DecodeSpecies(i) == DecodeSpeciesIdx(i, ActRes, Len(SpeciesNames))

\* int(min(max(0, x), grid_size - 1))
GridIndex(c) == Min(Max(0, c), (GridSize - 1) * ActRes) \div ActRes

(***************************************************************************)
(* Seedling registry.                                                      *)
(***************************************************************************)
SqDist(p, q) == (p[1] - q[1]) * (p[1] - q[1]) + (p[2] - q[2]) * (p[2] - q[2])

\* a faulty get_smallest_seedling_distance that compares neighbours in the
\* list only; C20 is tested against it
GetSmallestNeighbourDistance(registry) ==
    IF Len(registry) < 2 THEN [inf |-> TRUE, sq |-> 0]
    ELSE LET pairs == { SqDist(registry[i], registry[i + 1]) :
                          i \in 1 .. (Len(registry) - 1) }
         IN [inf |-> FALSE,
             sq |-> CHOOSE d \in pairs : \A e \in pairs : d <= e]

\* get_smallest_seedling_distance: inf for fewer than two seedlings, else the
\* minimum over all pairs i < j; sq is the squared distance over ActRes^2
GetSmallestSeedlingDistance(registry) ==
    IF Len(registry) < 2 THEN [inf |-> TRUE, sq |-> 0]
    ELSE LET pairs == { SqDist(registry[p[1]], registry[p[2]]) :
                          p \in { q \in (1 .. Len(registry)) \X (1 .. Len(registry)) :
                                    q[1] < q[2] } }
         IN [inf |-> FALSE,
             sq |-> CHOOSE d \in pairs : \A e \in pairs : d <= e]

\* distance > 0.5
MoreThanHalfUnit(d) == d.inf \/ 4 * d.sq > ActRes * ActRes

(***************************************************************************)
(* Observation.                                                            *)
(***************************************************************************)
RECURSIVE DrawSeedlingsTransposed(_, _)
\* a faulty drawing loop that indexes the grid by [grid_x, grid_y]; C29 is
\* tested against it
DrawSeedlingsTransposed(obs, registry) ==
    IF registry = << >> THEN obs
    ELSE LET s == Head(registry)
             grid_x == GridIndex(s[1])
             grid_y == GridIndex(s[2])
         IN DrawSeedlingsTransposed([obs EXCEPT ![<<grid_x, grid_y>>] = s[3] + 2],
                                    Tail(registry))

RECURSIVE DrawSeedlings(_, _)
\* the loop of lines 181-186: later seedlings overwrite earlier ones
DrawSeedlings(obs, registry) ==
    IF registry = << >> THEN obs
    ELSE LET s == Head(registry)
             grid_x == GridIndex(s[1])
             grid_y == GridIndex(s[2])
         IN DrawSeedlings([obs EXCEPT ![<<grid_y, grid_x>>] = s[3] + 2],
                          Tail(registry))

\* get_observation
GetObservation(mask, registry) ==
    DrawSeedlings([c \in GridCells |-> IF mask[c] THEN 0 ELSE 1], registry)

(***************************************************************************)
(* Simulator input file (initialize).                                      *)
(***************************************************************************)
\* f"{x:.2f}": the coordinate in hundredths, rounded to the nearest
Format2(c) == (2 * 100 * c + ActRes) \div (2 * ActRes)

\* one data line: x;y;species;dbh;height;age
SeedlingLine(s) ==
    [x |-> Format2(s[1]), y |-> Format2(s[2]), species |-> SpeciesNames[s[3] + 1],
     dbh |-> "2.0", height |-> "1.0", age |-> "0"]

NoFile == [exists |-> FALSE, header |-> "", lines |-> << >>]

\* a faulty initialize that runs before the commit and so misses the newest
\* seedling; C26 is tested against it
InitializeWithoutLast(registry) ==
    [exists |-> TRUE, header |-> "x;y;species;dbh;height;age",
     lines |-> [i \in 1 .. (Len(registry) - 1) |-> SeedlingLine(registry[i])]]

\* initialize: the file is opened with "w" and rewritten from the registry
Initialize(registry) ==
    [exists |-> TRUE, header |-> "x;y;species;dbh;height;age",
     lines |-> [i \in 1 .. Len(registry) |-> SeedlingLine(registry[i])]]

\* one data line of the grid-walker's file
WalkerSeedlingLine(s) ==
    [x |-> 100 * s.x, y |-> 100 * s.y, species |-> s.species,
     dbh |-> "2.0", height |-> "1.0", age |-> "0"]

\* iland_atari_env's initialize
WalkerInitialize(registry) ==
    [exists |-> TRUE, header |-> "x;y;species;dbh;height;age",
     lines |-> [i \in 1 .. Len(registry) |-> WalkerSeedlingLine(registry[i])]]

(***************************************************************************)
(* What the surroundings of a step may do: the filesystem, the simulator.  *)
(***************************************************************************)
\* fs: whether makedirs/open of the input file succeed
\* sim: how subprocess.run ends
\* write/db: what an exiting simulator leaves in the output database
\*           (write = FALSE: it leaves the database as it was)
FsError == [fs |-> "error", sim |-> "exit0", write |-> FALSE, db |-> NoDatabase]
SimEnds(e) == [fs |-> "ok", sim |-> e, write |-> FALSE, db |-> NoDatabase]
SimWrites(d) == [fs |-> "ok", sim |-> "exit0", write |-> TRUE, db |-> d]

StepOutcomes ==
    {FsError} \cup {SimEnds(e) : e \in {"nonzero", "launch_error", "exit0"}}
    \cup {SimWrites(d) : d \in DbContents}

\* a faulty run_simulation that takes a non-zero exit for success; C5 is
\* tested against it
RunSimulationIgnoringExitCode(sim) == sim # "launch_error"

\* run_simulation: True only for exit code 0; CalledProcessError and any
\* other exception are caught and give False
RunSimulation(sim) == sim = "exit0"

\* the output database after the simulator ran
DatabaseAfterRun(db, outcome) ==
    IF outcome.sim = "exit0" /\ outcome.write THEN outcome.db ELSE db

\* the file and process operations of one call
\*   write_failed: makedirs or open of the input file raised
\*   input_written: the input file as written (NoFile: not written)
\*   args: the argument vector the simulator was started with
\*   simulator: how the simulator process ended ("not_run": never started)
\*   output_read: the output database was queried
\*   shown: what render printed or drew
NoDisplay == [mode |-> "none", planted |-> 0, target |-> 0, carbon |-> 0, grid |-> << >>]
NoIo ==
    [write_failed |-> FALSE, input_written |-> NoFile, args |-> << >>,
     simulator |-> "not_run", output_read |-> FALSE, shown |-> NoDisplay]
WriteFailedIo == [NoIo EXCEPT !.write_failed = TRUE]
Io(file, args, sim, read) ==
    [write_failed |-> FALSE, input_written |-> file, args |-> args,
     simulator |-> sim, output_read |-> read, shown |-> NoDisplay]

(***************************************************************************)
(* Return values.                                                          *)
(***************************************************************************)
NoInfo ==
    [keys |-> {}, planted_seedlings |-> 0, valid_planting |-> FALSE,
     total_carbon |-> 0, remaining_seedlings |-> 0]

Returned(op, obs, reward, terminated, truncated, info) ==
    [op |-> op, raised |-> "none", obs |-> obs, reward |-> reward,
     terminated |-> terminated, truncated |-> truncated, info |-> info]

\* no observation (None)
NoObservation == << >>

Raised(op, error) ==
    [op |-> op, raised |-> error, obs |-> NoObservation, reward |-> 0,
     terminated |-> FALSE, truncated |-> FALSE, info |-> NoInfo]

(***************************************************************************)
(* Constructor arguments, and the caller's record of the calls.            *)
(***************************************************************************)
\* render_mode=None, years=10 (forest_env), process_index=1 (iland_atari_env)
DefaultConfig == [years |-> 10, render_mode |-> "none", process_index |-> 1]

\* the constructor arguments explored where they matter
RenderModes == {"none", "console", "human"}
YearsGiven == {10, 20}

\* the seeds given to reset
Seeds == {0, 1}

\* masks[s]: the masks the resets with seed s have produced; obs: the
\* observation the last get_observation returned, if no reset or step came
\* after it
NoHistory == [masks |-> [s \in Seeds |-> {}], obs |-> NoObservation]

(***************************************************************************)
(* Paths.  A path is the tuple of its components below                     *)
(* /home/main/iland-model.                                                 *)
(***************************************************************************)
\* a faulty directory name that forgets the index; C13 is tested against it
ProcessDirNameFixed(index) == "process_0"

\* another directory name that forgets the index; C17 is tested against it
ProcessDirNameShared(index) == "process_1"

\* f"process_{self.process_index}"
ProcessDirName(index) ==
    CASE index = 0 -> "process_0"
      [] index = 1 -> "process_1"

\* os.path.join
Join(dir, name) == Append(dir, name)

\* base_dir and process_dir
BaseDir == <<"data">>
ProcessDir(index) == Join(BaseDir, ProcessDirName(index))

\* str(years)
Str(n) ==
    CASE n = 10 -> "10"
      [] n = 20 -> "20"

\* the arguments subprocess.run is given by forest_env's run_simulation:
\* the path of the executable and nothing else
RunSimulationArgs == <<"build/python_interface">>

\* run_simulation's default years=10 in iland_atari_env; step gives no other
WalkerDefaultYears == 10

\* args = [path, self.xml_path, str(years)] in iland_atari_env
WalkerRunSimulationArgs(xml_path, years) ==
    <<"build/python_interface", xml_path, Str(years)>>

(***************************************************************************)
(* forest_env.ForestEnv, the continuous environment                        *)
(***************************************************************************)
\* reset's info
ResetInfo ==
    [NoInfo EXCEPT !.keys = {"planted_seedlings", "total_carbon"}]

\* step's info (lines 357-363; of the location and species entries only the
\* keys are kept)
StepInfo(registry, valid_planting) ==
    [NoInfo EXCEPT !.keys = {"planted_seedlings", "valid_planting", "location",
                             "species", "species_idx"},
                   !.planted_seedlings = Len(registry),
                   !.valid_planting = valid_planting]

\* a faulty commit that puts the new seedling in front; C11 is tested
\* against it
CommitInFront(registry, seedling) == <<seedling>> \o registry

\* self.seedlings_planted.append(...) / self.seedlings.append(...)
Commit(registry, seedling) == Append(registry, seedling)

\* a faulty validity test that reads the mask at [grid_x, grid_y]; C37 is
\* tested against it
ValidPlantingTransposed(mask, registry, grid_x, grid_y) ==
    mask[<<grid_x, grid_y>>]
    /\ MoreThanHalfUnit(GetSmallestSeedlingDistance(registry))

\* a faulty validity test that does not look at the spacing; C36 is tested
\* against it
ValidPlantingIgnoringSpacing(mask, registry, grid_x, grid_y) ==
    mask[<<grid_y, grid_x>>]

\* a faulty validity test that does not look at the mask; C3 is tested
\* against it
ValidPlantingIgnoringMask(mask, registry, grid_x, grid_y) ==
    MoreThanHalfUnit(GetSmallestSeedlingDistance(registry))

\* a faulty termination test (strictly more than the target); C1 is tested
\* against it
AllPlantedStrict(registry, target) == Len(registry) > target

\* a faulty truncation test that lets the budget run two failures over; C12
\* is tested against it
TooManyFailuresLate(failed) == failed > MaxFailedPlantings + 2

\* a faulty truncation test (already at the limit); C2 is tested against it
TooManyFailuresAtLimit(failed) == failed >= MaxFailedPlantings

\* a faulty reset that leaves previous_carbon as it was; C38 is tested
\* against it
ResetKeepingCarbon(mode, image) ==
    /\ variant = "continuous"
    /\ seedlings_planted' = << >>
    /\ num_failed_plantings' = 0
    /\ keepout' = GetRandomKeepoutMask(mode, image)
    /\ ret' = Returned("reset", GetObservation(keepout', seedlings_planted'), 0,
                       FALSE, FALSE, ResetInfo)
    /\ io' = NoIo
    /\ UNCHANGED <<variant, previous_carbon, total_seedlings, output_db, walkerVars>>

\* a faulty reset that draws a new mask and leaves the registry as it was;
\* C31 is tested against it
ResetKeepingRegistry(mode, image) ==
    /\ variant = "continuous"
    /\ previous_carbon' = 0
    /\ num_failed_plantings' = 0
    /\ keepout' = GetRandomKeepoutMask(mode, image)
    /\ ret' = Returned("reset", GetObservation(keepout', seedlings_planted), 0,
                       FALSE, FALSE, ResetInfo)
    /\ io' = NoIo
    /\ UNCHANGED <<variant, seedlings_planted, total_seedlings, output_db, walkerVars>>

\* a faulty reset that keeps the failure counter; C9 is tested against it
ResetKeepingFailures(mode, image) ==
    /\ variant = "continuous"
    /\ seedlings_planted' = << >>
    /\ previous_carbon' = 0
    /\ keepout' = GetRandomKeepoutMask(mode, image)
    /\ ret' = Returned("reset", GetObservation(keepout', seedlings_planted'), 0,
                       FALSE, FALSE, ResetInfo)
    /\ io' = NoIo
    /\ UNCHANGED <<variant, num_failed_plantings, total_seedlings, output_db,
                   walkerVars>>

\* valid_planting (lines 353-355)
ValidPlanting(mask, registry, grid_x, grid_y) ==
    mask[<<grid_y, grid_x>>]
    /\ MoreThanHalfUnit(GetSmallestSeedlingDistance(registry))

\* terminated = len(self.seedlings_planted) >= self.total_seedlings
AllPlanted(registry, target) == Len(registry) >= target

\* truncated = self.num_failed_plantings > 10
TooManyFailures(failed) == failed > MaxFailedPlantings

\* whether step(action) takes the planting branch in the current state
WouldPlant(action) ==
    ValidPlanting(keepout, seedlings_planted,
                  GridIndex(DecodeCoord(action[1])), GridIndex(DecodeCoord(action[2])))

\* reset
Reset(mode, image) ==
    /\ variant = "continuous"
    /\ seedlings_planted' = << >>
    /\ previous_carbon' = 0
    /\ num_failed_plantings' = 0
    /\ keepout' = GetRandomKeepoutMask(mode, image)
    /\ ret' = Returned("reset", GetObservation(keepout', seedlings_planted'), 0,
                       FALSE, FALSE, ResetInfo)
    /\ io' = NoIo
    /\ UNCHANGED <<variant, total_seedlings, output_db, walkerVars>>

\* random.seed(seed) followed by the random.random() < 0.5 of
\* get_random_keepout_mask: CPython's generator gives 0.844... as the first
\* number after seed 0 and 0.134... after seed 1
SeededMode(seed) ==
    CASE seed = 0 -> "inclusion"
      [] seed = 1 -> "exclusion"

\* reset(seed=seed): np.random.seed and random.seed, then reset as ever.
\* random_shapes is called without a seed of its own, and with none it draws
\* from a generator it makes afresh from the system's entropy; the image is
\* under no seed.
ResetSeeded(seed, image) == Reset(SeededMode(seed), image)

\* a faulty get_observation that takes the seedlings off the registry as it
\* draws them; C30 is tested against it
CallGetObservationDraining ==
    /\ variant = "continuous"
    /\ ret' = Returned("get_observation", GetObservation(keepout, seedlings_planted),
                       0, FALSE, FALSE, NoInfo)
    /\ seedlings_planted' = << >>
    /\ io' = NoIo
    /\ UNCHANGED <<variant, previous_carbon, num_failed_plantings, keepout,
                   total_seedlings, output_db, walkerVars>>

\* get_observation called by the user of the environment
CallGetObservation ==
    /\ variant = "continuous"
    /\ ret' = Returned("get_observation", GetObservation(keepout, seedlings_planted),
                       0, FALSE, FALSE, NoInfo)
    /\ io' = NoIo
    /\ UNCHANGED <<variant, contVars, previous_carbon, output_db, walkerVars>>

\* what render shows in the modes "console" and "human": the number of
\* seedlings planted and the target, the total carbon, and the grid, whose
\* cells are an empty plantable cell ("." or black, here 0), a keepout cell
\* ("X" or red, here 1) or the species planted there last (a letter or a
\* colour, here 2 + species_idx)
Display(mode, mask, registry, target, carbon) ==
    [mode |-> mode, planted |-> Len(registry), target |-> target, carbon |-> carbon,
     grid |-> GetObservation(mask, registry)]

\* render: nothing with render_mode None, else the state printed or drawn;
\* returns None
Render ==
    /\ variant = "continuous"
    /\ ret' = Returned("render", NoObservation, 0, FALSE, FALSE, NoInfo)
    /\ io' = IF config.render_mode = "none" THEN NoIo
             ELSE [NoIo EXCEPT !.shown = Display(config.render_mode, keepout,
                                                 seedlings_planted, total_seedlings,
                                                 previous_carbon)]
    /\ UNCHANGED <<variant, contVars, previous_carbon, output_db, walkerVars>>

\* close: plt.close("all") with render_mode "human", else nothing
Close ==
    /\ variant = "continuous"
    /\ ret' = Returned("close", NoObservation, 0, FALSE, FALSE, NoInfo)
    /\ io' = NoIo
    /\ UNCHANGED <<variant, contVars, previous_carbon, output_db, walkerVars>>

\* a faulty step that appends the seedling before it looks at the validity
\* of the planting; C28 is tested against it
StepCommittingFirst(action, outcome) ==
    LET x == DecodeCoord(action[1])
        y == DecodeCoord(action[2])
        species_idx == DecodeSpecies(action[3])
        grid_x == GridIndex(x)
        grid_y == GridIndex(y)
        valid_planting == ValidPlanting(keepout, seedlings_planted, grid_x, grid_y)
        info == StepInfo(seedlings_planted, valid_planting)
    IN
    /\ variant = "continuous"
    /\ seedlings_planted' = Commit(seedlings_planted, <<x, y, species_idx>>)
    /\ IF ~valid_planting
       THEN /\ num_failed_plantings' = num_failed_plantings + 1
            /\ ret' = Returned("step", GetObservation(keepout, seedlings_planted'),
                               InvalidPlantingReward, FALSE,
                               TooManyFailures(num_failed_plantings'), info)
            /\ io' = NoIo
            /\ UNCHANGED <<previous_carbon, output_db>>
       ELSE /\ UNCHANGED num_failed_plantings
            /\ IF outcome.fs = "error"
               THEN \* makedirs or open raises inside initialize; step catches nothing
                    /\ ret' = Raised("step", "OSError")
                    /\ io' = WriteFailedIo
                    /\ UNCHANGED <<previous_carbon, output_db>>
               ELSE /\ output_db' = DatabaseAfterRun(output_db, outcome)
                    /\ LET sim_success == RunSimulation(outcome.sim)
                           out == ReadOutput(output_db')
                           obs == GetObservation(keepout, seedlings_planted')
                           written == Initialize(seedlings_planted')
                       IN IF ~sim_success
                          THEN /\ ret' = Returned("step", obs, SimulationFailedReward,
                                                  TRUE, TRUE, info)
                               /\ io' = Io(written, RunSimulationArgs, outcome.sim, FALSE)
                               /\ UNCHANGED previous_carbon
                          ELSE IF out.none
                          THEN /\ ret' = Returned("step", obs, InvalidOutputReward,
                                                  TRUE, TRUE, info)
                               /\ io' = Io(written, RunSimulationArgs, outcome.sim, TRUE)
                               /\ UNCHANGED previous_carbon
                          ELSE /\ previous_carbon' = out.total_carbon
                               /\ io' = Io(written, RunSimulationArgs, outcome.sim, TRUE)
                               /\ ret' = Returned("step", obs,
                                     out.total_carbon - previous_carbon,
                                     AllPlanted(seedlings_planted', total_seedlings),
                                     FALSE,
                                     [info EXCEPT
                                        !.keys = @ \cup {"total_carbon", "carbon_improvement"},
                                        !.total_carbon = out.total_carbon])
    /\ UNCHANGED <<variant, keepout, total_seedlings, walkerVars>>

\* step
Step(action, outcome) ==
    LET x == DecodeCoord(action[1])
        y == DecodeCoord(action[2])
        species_idx == DecodeSpecies(action[3])
        grid_x == GridIndex(x)
        grid_y == GridIndex(y)
        valid_planting == ValidPlanting(keepout, seedlings_planted, grid_x, grid_y)
        info == StepInfo(seedlings_planted, valid_planting)
    IN
    /\ variant = "continuous"
    /\ IF ~valid_planting
       THEN /\ num_failed_plantings' = num_failed_plantings + 1
            /\ ret' = Returned("step", GetObservation(keepout, seedlings_planted),
                               InvalidPlantingReward, FALSE,
                               TooManyFailures(num_failed_plantings'), info)
            /\ io' = NoIo
            /\ UNCHANGED <<seedlings_planted, previous_carbon, output_db>>
       ELSE /\ seedlings_planted' = Commit(seedlings_planted, <<x, y, species_idx>>)
            /\ UNCHANGED num_failed_plantings
            /\ IF outcome.fs = "error"
               THEN \* makedirs or open raises inside initialize; step catches nothing
                    /\ ret' = Raised("step", "OSError")
                    /\ io' = WriteFailedIo
                    /\ UNCHANGED <<previous_carbon, output_db>>
               ELSE /\ output_db' = DatabaseAfterRun(output_db, outcome)
                    /\ LET sim_success == RunSimulation(outcome.sim)
                           out == ReadOutput(output_db')
                           obs == GetObservation(keepout, seedlings_planted')
                           written == Initialize(seedlings_planted')
                       IN IF ~sim_success
                          THEN /\ ret' = Returned("step", obs, SimulationFailedReward,
                                                  TRUE, TRUE, info)
                               /\ io' = Io(written, RunSimulationArgs, outcome.sim, FALSE)
                               /\ UNCHANGED previous_carbon
                          ELSE IF out.none
                          THEN /\ ret' = Returned("step", obs, InvalidOutputReward,
                                                  TRUE, TRUE, info)
                               /\ io' = Io(written, RunSimulationArgs, outcome.sim, TRUE)
                               /\ UNCHANGED previous_carbon
                          ELSE /\ previous_carbon' = out.total_carbon
                               /\ io' = Io(written, RunSimulationArgs, outcome.sim, TRUE)
                               /\ ret' = Returned("step", obs,
                                     out.total_carbon - previous_carbon,
                                     AllPlanted(seedlings_planted', total_seedlings),
                                     FALSE,
                                     [info EXCEPT
                                        !.keys = @ \cup {"total_carbon", "carbon_improvement"},
                                        !.total_carbon = out.total_carbon])
    /\ UNCHANGED <<variant, keepout, total_seedlings, walkerVars>>

\* __init__, with num_seedlings given as one of targets
InitContinuousFor(shapes, targets) ==
    /\ variant = "continuous"
    /\ seedlings_planted = << >>
    /\ previous_carbon = 0
    /\ num_failed_plantings = 0
    /\ total_seedlings \in targets
    /\ keepout \in {GetRandomKeepoutMask(mode, image) :
                      mode \in MaskModes, image \in shapes}
    /\ output_db = NoDatabase
    /\ io = NoIo
    /\ ret = Raised("init", "none")
    /\ seedlings = << >>
    /\ agent_location = << >>
    /\ num_seedlings = 0

\* __init__
InitContinuous(shapes) == InitContinuousFor(shapes, 1 .. MaxTarget)

\* no function applied on its own
NoCall ==
    [fn |-> "none", rows |-> << >>, year |-> 0, registry |-> << >>, done |-> FALSE,
     carbon |-> 0, distance |-> [inf |-> TRUE, sq |-> 0]]

\* the calls of one environment leave the caller's count and the disk of
\* the side-by-side model alone
Untracked == UNCHANGED <<episode, disk, envs, call, config, history>>

\* the same where the caller keeps a record of the calls
UntrackedButHistory == UNCHANGED <<episode, disk, envs, call, config>>

\* the calls explored on a continuous environment: masks drawn from shapes,
\* step outcomes from outcomes, the registry up to MaxPlanted seedlings and
\* the failure counter up to maxFail
NextContinuous(shapes, outcomes, maxFail) ==
    \/ \E mode \in MaskModes, image \in shapes : Reset(mode, image) /\ Untracked
    \/ \E action \in ActionSpace :
         \E outcome \in (IF WouldPlant(action) THEN outcomes ELSE {FsError}) :
            /\ Step(action, outcome)
            /\ Len(seedlings_planted') <= MaxPlanted
            /\ num_failed_plantings' <= maxFail
            /\ Untracked

(***************************************************************************)
(* iland_atari_env.ForestEnv, the grid-walker environment                  *)
(***************************************************************************)
\* Seedling.cluster_df: the species of each cluster (cluster k is entry k + 1)
ClusterSpecies == << {"abal", "piab"}, {"fasy"} >>

\* the actions explored: the four moves and one plant action per cluster
WalkerActions == 0 .. (3 + Len(ClusterSpecies))

\* _action_to_direction
ActionToDirection(action) ==
    CASE action = 0 -> <<1, 0>>
      [] action = 1 -> <<0, 1>>
      [] action = 2 -> <<-1, 0>>
      [] action = 3 -> <<0, -1>>

\* a faulty clip whose upper limit is the size itself; C24 is tested against it
ClipToSize(v) == Max(0, Min(v, GridSize))

\* np.clip(v, 0, self.size - 1)
Clip(v) == Max(0, Min(v, GridSize - 1))

RECURSIVE DrawWalkerSeedlings(_, _)
DrawWalkerSeedlings(obs, registry) ==
    IF registry = << >> THEN obs
    ELSE LET s == Head(registry)
         IN DrawWalkerSeedlings([obs EXCEPT ![<<s.y, s.x>>] = s.species],
                                Tail(registry))

\* _get_obs: a seedling's cell shows its species' colour, the agent's cell is white
GetObs(registry, location) ==
    [DrawWalkerSeedlings([c \in GridCells |-> "empty"], registry)
        EXCEPT ![<<location[2], location[1]>>] = "agent"]

\* _get_info
GetInfo(registry, target) ==
    [NoInfo EXCEPT !.keys = {"remaining_seedlings"},
                   !.remaining_seedlings = target - Len(registry)]

\* a faulty occupancy test that finds every cell free, as if step skipped
\* the loop; C40 is tested against it
NeverOccupied(registry, location) == FALSE

\* a faulty occupancy test that compares x with the agent's y and y with its
\* x; C23 is tested against it
OccupiedTransposed(registry, location) ==
    \E i \in 1 .. Len(registry) :
        registry[i].x = location[2] /\ registry[i].y = location[1]

\* the loop of lines 308-313: a seedling already occupies the agent's cell
Occupied(registry, location) ==
    \E i \in 1 .. Len(registry) :
        registry[i].x = location[1] /\ registry[i].y = location[2]

\* whether step(action) takes the planting branch in the current state
WalkerWouldPlant(action) ==
    action > 3 /\ agent_location # << >> /\ ~Occupied(seedlings, agent_location)

\* reset
WalkerReset(location) ==
    /\ variant = "walker"
    /\ agent_location' = location
    /\ previous_carbon' = 0
    /\ seedlings' = << >>
    /\ ret' = Returned("reset", GetObs(seedlings', agent_location'), 0, FALSE, FALSE,
                       GetInfo(seedlings', num_seedlings))
    /\ io' = NoIo
    /\ UNCHANGED <<variant, num_seedlings, output_db, contVars>>

\* step; species is the one species_in_cluster.sample(n=1) draws
WalkerStep(action, species, outcome) ==
    /\ variant = "walker"
    /\ IF agent_location = << >>
       THEN \* no reset yet: self._agent_location does not exist
            /\ ret' = Raised("step", "AttributeError")
            /\ io' = NoIo
            /\ UNCHANGED <<agent_location, seedlings, previous_carbon, output_db>>
       ELSE IF action <= 3
       THEN /\ agent_location' =
                  <<Clip(agent_location[1] + ActionToDirection(action)[1]),
                    Clip(agent_location[2] + ActionToDirection(action)[2])>>
            /\ ret' = Returned("step", GetObs(seedlings, agent_location'), 0,
                               FALSE, FALSE, GetInfo(seedlings, num_seedlings))
            /\ io' = NoIo
            /\ UNCHANGED <<seedlings, previous_carbon, output_db>>
       ELSE IF Occupied(seedlings, agent_location)
       THEN /\ ret' = Returned("step", GetObs(seedlings, agent_location), 0,
                               FALSE, FALSE, GetInfo(seedlings, num_seedlings))
            /\ io' = NoIo
            /\ UNCHANGED <<agent_location, seedlings, previous_carbon, output_db>>
       ELSE /\ seedlings' = Commit(seedlings,
                                   [cluster |-> action - 4, x |-> agent_location[1],
                                    y |-> agent_location[2], species |-> species])
            /\ UNCHANGED agent_location
            /\ IF outcome.fs = "error"
               THEN \* makedirs or open raises inside initialize; step catches nothing
                    /\ ret' = Raised("step", "OSError")
                    /\ io' = WriteFailedIo
                    /\ UNCHANGED <<previous_carbon, output_db>>
               ELSE /\ output_db' = DatabaseAfterRun(output_db, outcome)
                    /\ LET sim_success == RunSimulation(outcome.sim)
                           out == ReadOutput(output_db')
                           written == WalkerInitialize(seedlings')
                           xml_path == Join(ProcessDir(config.process_index),
                                            "project.xml")
                           args == WalkerRunSimulationArgs(xml_path,
                                                           WalkerDefaultYears)
                       IN IF ~sim_success
                          THEN \* line 329 returns info, which this branch never bound
                               /\ ret' = Raised("step", "UnboundLocalError")
                               /\ io' = Io(written, args, outcome.sim, FALSE)
                               /\ UNCHANGED previous_carbon
                          ELSE IF out.none
                          THEN \* line 339 returns info, which this branch never bound
                               /\ ret' = Raised("step", "UnboundLocalError")
                               /\ io' = Io(written, args, outcome.sim, TRUE)
                               /\ UNCHANGED previous_carbon
                          ELSE /\ previous_carbon' = out.total_carbon
                               /\ io' = Io(written, args, outcome.sim, TRUE)
                               /\ ret' = Returned("step",
                                     GetObs(seedlings', agent_location),
                                     out.total_carbon - previous_carbon,
                                     AllPlanted(seedlings', num_seedlings), FALSE,
                                     GetInfo(seedlings', num_seedlings))
    /\ UNCHANGED <<variant, num_seedlings, contVars>>

\* __init__
InitWalker ==
    /\ variant = "walker"
    /\ num_seedlings \in 1 .. MaxTarget
    /\ seedlings = << >>
    /\ previous_carbon = 0
    /\ agent_location = << >>
    /\ output_db = NoDatabase
    /\ io = NoIo
    /\ ret = Raised("init", "none")
    /\ seedlings_planted = << >>
    /\ num_failed_plantings = 0
    /\ total_seedlings = 0
    /\ keepout = [c \in GridCells |-> TRUE]

\* the calls explored on a grid-walker environment, the registry up to
\* MaxPlanted seedlings
NextWalker ==
    \/ \E location \in GridCells : WalkerReset(location) /\ Untracked
    \/ \E action \in WalkerActions :
         \E species \in (IF action > 3 THEN ClusterSpecies[action - 3] ELSE {""}) :
            \E outcome \in (IF WalkerWouldPlant(action) THEN StepOutcomes
                            ELSE {FsError}) :
               /\ WalkerStep(action, species, outcome)
               /\ Len(seedlings') <= MaxPlanted
               /\ Untracked

(***************************************************************************)
(* The caller's view of an episode: the steps it has issued since the last *)
(* reset, and the first of them that returned terminated or truncated.     *)
(***************************************************************************)
\* no step since the reset (or the construction)
NewEpisode == [steps |-> 0, ended_at |-> 0]

\* the count after one more step, whose outcome was r
StepCounted(e, r) ==
    [steps |-> e.steps + 1,
     ended_at |-> IF e.ended_at = 0 /\ r.raised = "none"
                                    /\ (r.terminated \/ r.truncated)
                  THEN e.steps + 1 ELSE e.ended_at]

(***************************************************************************)
(* Instances side by side: the disk, and the workspace that                *)
(* iland_atari_env.ForestEnv._set_up_process_files prepares.               *)
(* A path is the tuple of its components below /home/main/iland-model,     *)
(* which is also the working directory of the relative paths.              *)
(***************************************************************************)
Envs == {1, 2}
ProcessIndices == {0, 1}

\* the template and the paths of the continuous class
TemplatePath == Join(BaseDir, "project.xml")
ContInputPath == <<"data", "seedling_init.txt">>
ContOutputPath == <<"output.sqlite">>

\* the names a process directory may hold; "old" is a subdirectory left behind
DirNames == {"seedling_init.txt", "project.xml", "output.sqlite", "old"}
DiskPaths ==
    {TemplatePath, ContInputPath, ContOutputPath}
    \cup {Join(ProcessDir(k), name) : k \in ProcessIndices, name \in DirNames}

\* What a path holds.  by: the instance that wrote it (0: left from before);
\* n: the seedlings an input file lists, the seedlings an output database was
\* simulated from, or the entries of a directory; form: "xml" for a
\* configuration that parses, "garbled" for one that does not; out: the
\* output-database path a configuration names.
Absent == [kind |-> "absent", by |-> 0, n |-> 0, form |-> "", out |-> << >>]
File(by, n) == [kind |-> "file", by |-> by, n |-> n, form |-> "", out |-> << >>]
Directory(n) == [kind |-> "dir", by |-> 0, n |-> n, form |-> "", out |-> << >>]
Xml(by, form, out) == [kind |-> "file", by |-> by, n |-> 0, form |-> form, out |-> out]

\* the template configurations: it names output.sqlite, it does not parse,
\* or it is missing
Templates == {Xml(0, "xml", <<"output.sqlite">>), Xml(0, "garbled", << >>), Absent}

\* os.listdir
ListDir(d, dir) == {name \in DirNames : d[Join(dir, name)].kind # "absent"}

\* lines 211-220: the loop that clears the directory; os.remove takes a
\* file, os.rmdir takes a directory only when it is empty (the error is
\* caught and printed)
ClearDirectory(d, dir) ==
    [p \in DOMAIN d |->
        IF \E name \in ListDir(d, dir) : p = Join(dir, name)
        THEN IF d[p].kind = "file" \/ (d[p].kind = "dir" /\ d[p].n = 0)
             THEN Absent ELSE d[p]
        ELSE d[p]]

\* lines 222-230: remove the old copy, copy the template; a missing template
\* makes shutil.copy raise after the old copy is removed (caught and printed)
CopyXml(d, by, dest) ==
    IF d[TemplatePath].kind = "absent"
    THEN [d EXCEPT ![dest] = IF @.kind = "file" THEN Absent ELSE @]
    ELSE [d EXCEPT ![dest] = [d[TemplatePath] EXCEPT !.by = by]]

\* lines 235-252: parse the copy, point every element whose text is
\* "output.sqlite" into the process directory, write the copy back; a
\* missing or garbled copy makes ET.parse raise (caught and printed)
RewriteXml(d, dest, dir) ==
    IF d[dest].kind = "file" /\ d[dest].form = "xml"
    THEN [d EXCEPT ![dest].out = IF @ = <<"output.sqlite">>
                                 THEN Join(dir, "output.sqlite") ELSE @]
    ELSE d

\* An instance as the interleaving sees it.  pc: "new" (not constructed),
\* "cleared" (inside _set_up_process_files, directory cleared), "idle"
\* (between calls), "written" (inside step, input file written), "running"
\* (simulator process started), "ran" (simulator exited with 0), "aborted"
\* (the constructor raised).  count: the seedlings of the registry.
\* last: the last thing the instance did.  simulated: the input file the
\* instance's last simulator run read.  seen: the output database its last
\* read_output found.
NoEnv ==
    [kind |-> "none", pc |-> "new", process_index |-> -1, process_dir |-> << >>,
     xml_path |-> << >>, count |-> 0, last |-> "none", simulated |-> Absent,
     seen |-> Absent]
NoEnvs == [i \in Envs |-> NoEnv]

\* a disk on which nothing was written yet: the template and nothing else
NoDisk ==
    [p \in DiskPaths |-> IF p = TemplatePath THEN Xml(0, "xml", <<"output.sqlite">>)
                         ELSE Absent]

\* the input file step writes: initialize(process_dir/seedling_init.txt) in
\* the grid-walker, initialize() with its default path in the continuous class
InputPathOf(e) ==
    IF e.kind = "walker" THEN Join(e.process_dir, "seedling_init.txt")
    ELSE ContInputPath

\* the database read_output opens: process_dir/output.sqlite in the
\* grid-walker, read_table's default "output.sqlite" in the continuous class
OutputPathOf(e) ==
    IF e.kind = "walker" THEN Join(e.process_dir, "output.sqlite")
    ELSE ContOutputPath

\* the configuration the simulator is started with can be used
ConfigUsable(d, e) ==
    e.kind = "walker" => (d[e.xml_path].kind = "file" /\ d[e.xml_path].form = "xml")

\* the database the simulator writes: the one its configuration names
SimulatorOutputPath(d, e) ==
    IF e.kind = "walker" THEN d[e.xml_path].out ELSE ContOutputPath

\* iland_atari_env.ForestEnv.__init__ up to the cleared directory:
\* os.makedirs (which raises when the directory cannot be created) and the
\* clearing loop
BeginSetUpProcessFiles(i, index, makedirs_ok) ==
    /\ envs[i].pc = "new"
    /\ IF makedirs_ok
       THEN /\ disk' = ClearDirectory(disk, ProcessDir(index))
            /\ envs' = [envs EXCEPT ![i] =
                          [NoEnv EXCEPT !.kind = "walker", !.pc = "cleared",
                                        !.process_index = index]]
       ELSE /\ envs' = [envs EXCEPT ![i] =
                          [NoEnv EXCEPT !.kind = "walker", !.pc = "aborted",
                                        !.process_index = index,
                                        !.last = "acquire"]]
            /\ UNCHANGED disk

\* the rest of _set_up_process_files and of __init__: copy the template,
\* rewrite the copy; no error of these steps leaves the constructor
FinishSetUpProcessFiles(i) ==
    /\ envs[i].pc = "cleared"
    /\ LET dir == ProcessDir(envs[i].process_index)
           dest == Join(dir, "project.xml")
       IN /\ disk' = RewriteXml(CopyXml(disk, i, dest), dest, dir)
          /\ envs' = [envs EXCEPT ![i].pc = "idle", ![i].xml_path = dest,
                                  ![i].process_dir = dir, ![i].last = "acquire"]

\* forest_env.ForestEnv.__init__: no file is touched
ConstructContinuous(i) ==
    /\ envs[i].pc = "new"
    /\ envs' = [envs EXCEPT ![i] = [NoEnv EXCEPT !.kind = "continuous", !.pc = "idle",
                                                 !.last = "acquire"]]
    /\ UNCHANGED disk

\* step, from the commit to the written input file
PlantAndInitialize(i) ==
    /\ envs[i].pc = "idle"
    /\ envs[i].count < MaxPlanted
    /\ disk' = [disk EXCEPT ![InputPathOf(envs[i])] = File(i, envs[i].count + 1)]
    /\ envs' = [envs EXCEPT ![i].pc = "written", ![i].count = @ + 1,
                            ![i].last = "write", ![i].simulated = Absent,
                            ![i].seen = Absent]

\* run_simulation: subprocess.run starts the simulator
LaunchSimulator(i) ==
    /\ envs[i].pc = "written"
    /\ envs' = [envs EXCEPT ![i].pc = "running"]
    /\ UNCHANGED disk

\* the simulator process ends: with exit code 0 it has read the input file
\* and written the output database; otherwise step is over
SimulatorExits(i, exit) ==
    /\ envs[i].pc = "running"
    /\ exit = "exit0" => ConfigUsable(disk, envs[i])
    /\ IF exit = "exit0"
       THEN LET input == disk[InputPathOf(envs[i])]
            IN /\ disk' = [disk EXCEPT ![SimulatorOutputPath(disk, envs[i])] =
                                          File(i, input.n)]
               /\ envs' = [envs EXCEPT ![i].pc = "ran", ![i].simulated = input,
                                       ![i].last = "sim"]
       ELSE /\ envs' = [envs EXCEPT ![i].pc = "idle", ![i].last = "sim"]
            /\ UNCHANGED disk

\* read_output, and the end of step
ReadOutputDatabase(i) ==
    /\ envs[i].pc = "ran"
    /\ envs' = [envs EXCEPT ![i].pc = "idle", ![i].seen = disk[OutputPathOf(envs[i])],
                            ![i].last = "read"]
    /\ UNCHANGED disk

\* the instance is dropped (its process ends); its files stay
Discard(i) ==
    /\ envs[i].pc \in {"idle", "aborted"}
    /\ envs' = [envs EXCEPT ![i] = NoEnv]
    /\ UNCHANGED disk

\* the variables of the single-environment model, which these
\* specifications leave alone
InitOneEnvIdle ==
    /\ InitWalker /\ num_seedlings = MaxTarget /\ episode = NewEpisode
    /\ config = DefaultConfig /\ history = NoHistory
OneEnvIdle ==
    UNCHANGED <<variant, seedlings_planted, previous_carbon, num_failed_plantings,
                keepout, total_seedlings, seedlings, agent_location,
                num_seedlings, output_db, io, ret, episode, config, history>>
InitOneEnvUnused == InitOneEnvIdle /\ call = NoCall
OneEnvUnused == OneEnvIdle /\ UNCHANGED call

\* what an earlier use may have left in the directory of index 0
StaleDisks ==
    { [p \in DiskPaths |->
         IF p = TemplatePath THEN template
         ELSE IF p = Join(ProcessDir(0), "seedling_init.txt") THEN input
         ELSE IF p = Join(ProcessDir(0), "output.sqlite") THEN output
         ELSE IF p = Join(ProcessDir(0), "project.xml") THEN xml
         ELSE IF p = Join(ProcessDir(0), "old") THEN old
         ELSE Absent] :
        template \in Templates,
        input \in {Absent, File(0, 1)},
        output \in {Absent, File(0, 1)},
        xml \in {Absent, Xml(0, "xml", Join(ProcessDir(0), "output.sqlite"))},
        old \in {Absent, Directory(0), Directory(1)} }

\* one grid-walker instance after another on index 0, over every stale disk
InitAcquire == InitOneEnvUnused /\ disk \in StaleDisks /\ envs = NoEnvs
NextAcquire ==
    \/ \E makedirs_ok \in BOOLEAN :
          BeginSetUpProcessFiles(1, 0, makedirs_ok) /\ OneEnvUnused
    \/ FinishSetUpProcessFiles(1) /\ OneEnvUnused
    \/ PlantAndInitialize(1) /\ OneEnvUnused
    \/ LaunchSimulator(1) /\ OneEnvUnused
    \/ \E exit \in {"exit0", "nonzero"} : SimulatorExits(1, exit) /\ OneEnvUnused
    \/ ReadOutputDatabase(1) /\ OneEnvUnused
    \/ Discard(1) /\ OneEnvUnused
SpecAcquire == InitAcquire /\ [][NextAcquire]_vars

\* two instances in separate processes, their constructions and steps
\* interleaved; grid-walker instances get different indices, as
\* train_dqn_agent.main gives them
IndexFree(i, index) ==
    \A j \in Envs \ {i} : envs[j].kind = "walker" => envs[j].process_index # index
InitParallel == InitOneEnvUnused /\ disk = NoDisk /\ envs = NoEnvs
NextParallel ==
    \/ \E i \in Envs, index \in ProcessIndices :
          IndexFree(i, index) /\ BeginSetUpProcessFiles(i, index, TRUE) /\ OneEnvUnused
    \/ \E i \in Envs : FinishSetUpProcessFiles(i) /\ OneEnvUnused
    \/ \E i \in Envs : ConstructContinuous(i) /\ OneEnvUnused
    \/ \E i \in Envs : PlantAndInitialize(i) /\ OneEnvUnused
    \/ \E i \in Envs : LaunchSimulator(i) /\ OneEnvUnused
    \/ \E i \in Envs, exit \in {"exit0", "nonzero"} :
          SimulatorExits(i, exit) /\ OneEnvUnused
    \/ \E i \in Envs : ReadOutputDatabase(i) /\ OneEnvUnused
SpecParallel == InitParallel /\ [][NextParallel]_vars

(***************************************************************************)
(* Specifications.                                                         *)
(***************************************************************************)
\* the specifications of one environment follow neither the caller's count
\* nor the disk
InitUntracked ==
    /\ episode = NewEpisode /\ disk = NoDisk /\ envs = NoEnvs /\ call = NoCall
    /\ config = DefaultConfig /\ history = NoHistory

\* The masks and outcomes of SpecBudget, which follows the failure counter
\* past the failure budget.
BudgetShapes == { image \in RandomShapes : image[<<0, GridSize - 1>>] = 0
                                           /\ image[<<GridSize - 1, 0>>] = Background }
BudgetOutcomes == {SimEnds("nonzero"), SimWrites(TreeTable(RowsA))}

\* the continuous environment
Init == InitContinuous(RandomShapes) /\ InitUntracked
Next == NextContinuous(RandomShapes, StepOutcomes, MaxFailWide)
Spec == Init /\ [][Next]_vars

\* the continuous environment, to the end of the failure budget
InitBudget == InitContinuous(BudgetShapes) /\ InitUntracked
NextBudget == NextContinuous(BudgetShapes, BudgetOutcomes, MaxFailCount)
SpecBudget == InitBudget /\ [][NextBudget]_vars

\* the grid-walker environment
InitWalkerOnly == InitWalker /\ InitUntracked
SpecWalker == InitWalkerOnly /\ [][NextWalker]_vars

\* the grid-walker environment from the state a first reset leaves, stepped
\* for ever: the caller issues one step call after another; every simulator
\* outcome, no filesystem error
InitWalkerAfterReset ==
    /\ InitUntracked
    /\ variant = "walker"
    /\ num_seedlings \in 1 .. MaxTarget
    /\ seedlings = << >>
    /\ previous_carbon = 0
    /\ agent_location \in GridCells
    /\ output_db = NoDatabase
    /\ io = NoIo
    /\ ret = Returned("reset", GetObs(seedlings, agent_location), 0, FALSE, FALSE,
                      GetInfo(seedlings, num_seedlings))
    /\ seedlings_planted = << >>
    /\ num_failed_plantings = 0
    /\ total_seedlings = 0
    /\ keepout = [c \in GridCells |-> TRUE]
NextWalkerSteps ==
    \E action \in WalkerActions :
       \E species \in (IF action > 3 THEN ClusterSpecies[action - 3] ELSE {""}) :
          \E outcome \in (IF WalkerWouldPlant(action) THEN StepOutcomes \ {FsError}
                          ELSE {FsError}) :
             /\ WalkerStep(action, species, outcome)
             /\ Len(seedlings') <= MaxPlanted
             /\ Untracked
SpecWalkerSteps ==
    InitWalkerAfterReset /\ [][NextWalkerSteps]_vars /\ WF_vars(NextWalkerSteps)

\* either environment
InitBoth == Init \/ InitWalkerOnly
NextBoth == Next \/ NextWalker
SpecBoth == InitBoth /\ [][NextBoth]_vars

\* the continuous environment with a target of up to MaxCrowded seedlings,
\* followed to the end of the failure budget; the simulator writes a readable
\* tree table or exits with an error
InitSpacing == InitContinuousFor(BudgetShapes, 1 .. MaxCrowded) /\ InitUntracked
NextSpacing ==
    \/ \E mode \in MaskModes, image \in BudgetShapes : Reset(mode, image) /\ Untracked
    \/ \E action \in ActionSpace :
         \E outcome \in (IF WouldPlant(action) THEN BudgetOutcomes ELSE {FsError}) :
            /\ Step(action, outcome)
            /\ Len(seedlings_planted') <= MaxCrowded
            /\ num_failed_plantings' <= MaxFailCount
            /\ Untracked
SpecSpacing == InitSpacing /\ [][NextSpacing]_vars

\* either environment, with a record of whether the simulator run of the
\* last call wrote the output database (no call but a planting step runs the
\* simulator).  Neither class removes output.sqlite before a run or looks at
\* its age: what a run that writes nothing leaves to be read is what an
\* earlier run wrote.
FreshnessOutcomes ==
    {SimEnds("exit0"), SimEnds("nonzero"), SimWrites(NoTreeTable),
     SimWrites(TreeTable(RowsA))}
NoRun == [run_wrote |-> FALSE]
RunOf(planting, outcome) ==
    [run_wrote |-> planting /\ outcome.fs = "ok" /\ outcome.sim = "exit0"
                   /\ outcome.write]
InitFreshness ==
    /\ InitContinuous(BudgetShapes) \/ InitWalker
    /\ episode = NewEpisode /\ disk = NoDisk /\ envs = NoEnvs /\ call = NoCall
    /\ config = DefaultConfig /\ history = NoRun
NextFreshness ==
    \/ \E mode \in MaskModes, image \in BudgetShapes :
          Reset(mode, image) /\ history' = NoRun /\ UntrackedButHistory
    \/ \E action \in ActionSpace :
         \E outcome \in (IF WouldPlant(action) THEN FreshnessOutcomes ELSE {FsError}) :
            /\ Step(action, outcome)
            /\ Len(seedlings_planted') <= MaxPlanted
            /\ num_failed_plantings' <= MaxFailWide
            /\ history' = RunOf(WouldPlant(action), outcome)
            /\ UntrackedButHistory
    \/ \E location \in GridCells :
          WalkerReset(location) /\ history' = NoRun /\ UntrackedButHistory
    \/ \E action \in WalkerActions :
         \E species \in (IF action > 3 THEN ClusterSpecies[action - 3] ELSE {""}) :
            \E outcome \in (IF WalkerWouldPlant(action) THEN FreshnessOutcomes
                            ELSE {FsError}) :
               /\ WalkerStep(action, species, outcome)
               /\ Len(seedlings') <= MaxPlanted
               /\ history' = RunOf(WalkerWouldPlant(action), outcome)
               /\ UntrackedButHistory
SpecFreshness == InitFreshness /\ [][NextFreshness]_vars

\* either environment, the caller adding up the rewards of the steps since
\* the last reset that were evaluated: the steps that returned a reward
\* computed from the carbon read_output gave.  The simulator leaves one of
\* two tree tables of different carbon, an empty table or none, or fails.
RowsB == << TreeRow(10, 60, 40, 40, 20, 9) >>
RewardOutcomes ==
    {SimEnds("nonzero"), SimWrites(NoTreeTable), SimWrites(TreeTable(<< >>)),
     SimWrites(TreeTable(RowsA)), SimWrites(TreeTable(RowsB))}
Evaluated(r, o) == r.op = "step" /\ r.raised = "none" /\ o.output_read /\ ~r.truncated
NoRewards == [evaluated |-> 0]
RewardsAfter(h, r, o) ==
    [evaluated |-> h.evaluated + (IF Evaluated(r, o) THEN r.reward ELSE 0)]
InitRewards ==
    /\ InitContinuous(BudgetShapes) \/ InitWalker
    /\ episode = NewEpisode /\ disk = NoDisk /\ envs = NoEnvs /\ call = NoCall
    /\ config = DefaultConfig /\ history = NoRewards
NextRewards ==
    \/ \E mode \in MaskModes, image \in BudgetShapes :
          Reset(mode, image) /\ history' = NoRewards /\ UntrackedButHistory
    \/ \E action \in ActionSpace :
         \E outcome \in (IF WouldPlant(action) THEN RewardOutcomes ELSE {FsError}) :
            /\ Step(action, outcome)
            /\ Len(seedlings_planted') <= MaxPlanted
            /\ num_failed_plantings' <= MaxFailWide
            /\ history' = RewardsAfter(history, ret', io')
            /\ UntrackedButHistory
    \/ \E location \in GridCells :
          WalkerReset(location) /\ history' = NoRewards /\ UntrackedButHistory
    \/ \E action \in WalkerActions :
         \E species \in (IF action > 3 THEN ClusterSpecies[action - 3] ELSE {""}) :
            \E outcome \in (IF WalkerWouldPlant(action) THEN RewardOutcomes
                            ELSE {FsError}) :
               /\ WalkerStep(action, species, outcome)
               /\ Len(seedlings') <= MaxPlanted
               /\ history' = RewardsAfter(history, ret', io')
               /\ UntrackedButHistory
SpecRewards == InitRewards /\ [][NextRewards]_vars

\* the continuous environment reset with and without a seed, the caller
\* recording the mask each seeded reset produced
SeedShapes == { image \in RandomShapes : image[<<GridSize - 1, 0>>] = Background }
InitSeed == InitContinuous(SeedShapes) /\ InitUntracked
NextSeed ==
    \/ \E seed \in Seeds, image \in SeedShapes :
          /\ ResetSeeded(seed, image)
          /\ history' = [history EXCEPT !.masks[seed] = @ \cup {keepout'},
                                        !.obs = NoObservation]
          /\ UNCHANGED <<episode, disk, envs, call, config>>
    \/ \E mode \in MaskModes, image \in SeedShapes :
          /\ Reset(mode, image)
          /\ history' = [history EXCEPT !.obs = NoObservation]
          /\ UNCHANGED <<episode, disk, envs, call, config>>
    \/ \E action \in ActionSpace :
          \E outcome \in (IF WouldPlant(action) THEN BudgetOutcomes ELSE {FsError}) :
             /\ Step(action, outcome)
             /\ Len(seedlings_planted') <= MaxPlanted
             /\ num_failed_plantings' <= MaxFailWide
             /\ history' = [history EXCEPT !.obs = NoObservation]
             /\ UNCHANGED <<episode, disk, envs, call, config>>
SpecSeed == InitSeed /\ [][NextSeed]_vars

\* the continuous environment constructed with each render mode and number
\* of years, and every method called on it; the caller keeps the last
\* observation get_observation gave it until a reset or a step
CallsConfigs ==
    {[DefaultConfig EXCEPT !.years = years, !.render_mode = mode] :
        years \in YearsGiven, mode \in RenderModes}
InitCalls ==
    /\ InitContinuous(BudgetShapes)
    /\ episode = NewEpisode /\ disk = NoDisk /\ envs = NoEnvs /\ call = NoCall
    /\ config \in CallsConfigs /\ history = NoHistory
NextCalls ==
    \/ \E mode \in MaskModes, image \in BudgetShapes :
          /\ Reset(mode, image)
          /\ history' = [history EXCEPT !.obs = NoObservation]
          /\ UNCHANGED <<episode, disk, envs, call, config>>
    \/ \E action \in ActionSpace :
          \E outcome \in (IF WouldPlant(action) THEN BudgetOutcomes ELSE {FsError}) :
             /\ Step(action, outcome)
             /\ Len(seedlings_planted') <= MaxPlanted
             /\ num_failed_plantings' <= MaxFailWide
             /\ history' = [history EXCEPT !.obs = NoObservation]
             /\ UNCHANGED <<episode, disk, envs, call, config>>
    \/ /\ CallGetObservation
       /\ history' = [history EXCEPT !.obs = ret'.obs]
       /\ UNCHANGED <<episode, disk, envs, call, config>>
    \/ Render /\ Untracked
    \/ Close /\ Untracked
SpecCalls == InitCalls /\ [][NextCalls]_vars

\* get_total_carbon and get_smallest_seedling_distance on their own: Init
\* draws the arguments, the actions apply the function
SeqsUpTo(S, n) == UNION {[1 .. k -> S] : k \in 0 .. n}
SampleRows ==
    {TreeRow(10, 40, 10, 8, 2, 7), TreeRow(10, 25, 8, 5, 2, 4),
     TreeRow(10, 25, 8, 5, 2, 9), TreeRow(9, 30, 10, 5, 1, 3)}
SampleYears == {9, 10, 11}
SamplePositions == {<<x, y, 0>> : x \in 0 .. GridSize * ActRes, y \in 0 .. GridSize * ActRes}
CarbonCalls ==
    {[NoCall EXCEPT !.fn = "get_total_carbon", !.rows = rows, !.year = year] :
        rows \in SeqsUpTo(SampleRows, MaxRows), year \in SampleYears}
DistanceCalls ==
    {[NoCall EXCEPT !.fn = "get_smallest_seedling_distance", !.registry = registry] :
        registry \in SeqsUpTo(SamplePositions, MaxRegistry)}
ApplyGetTotalCarbon ==
    /\ call.fn = "get_total_carbon" /\ ~call.done
    /\ call' = [call EXCEPT !.done = TRUE,
                            !.carbon = GetTotalCarbon(call.rows, call.year)]
ApplyGetSmallestSeedlingDistance ==
    /\ call.fn = "get_smallest_seedling_distance" /\ ~call.done
    /\ call' = [call EXCEPT !.done = TRUE,
                            !.distance = GetSmallestSeedlingDistance(call.registry)]
InitFunctions ==
    /\ InitOneEnvIdle /\ disk = NoDisk /\ envs = NoEnvs
    /\ call \in CarbonCalls \cup DistanceCalls
NextFunctions ==
    \/ ApplyGetTotalCarbon /\ UNCHANGED <<disk, envs>> /\ OneEnvIdle
    \/ ApplyGetSmallestSeedlingDistance /\ UNCHANGED <<disk, envs>> /\ OneEnvIdle
SpecFunctions == InitFunctions /\ [][NextFunctions]_vars

\* get_random_keepout_mask and the decoding of the species component, each
\* applied on its own.  An image is any grid of pixels with at least one
\* shape pixel; random_shapes gives a shape pixel of a one-channel image an
\* intensity of 0 to 254 and leaves the background at 255.
ShapeIntensities == {0, 254}
Images == [GridCells -> ShapeIntensities \cup {Background}]
          \ {[c \in GridCells |-> Background]}
MaskCalls ==
    {[fn |-> "get_random_keepout_mask", mode |-> mode, image |-> image,
      done |-> FALSE, mask |-> << >>, plantable |-> << >>] :
        mode \in MaskModes, image \in Images}
SpeciesCalls ==
    {[fn |-> "decode_species", i |-> i, n |-> n, done |-> FALSE, species_idx |-> 0] :
        i \in 0 .. SpeciesRes, n \in 1 .. MaxSpeciesCount}

\* the mask of the call's mode and image, and the cells at which step's
\* validity test lets a first seedling be planted under that mask
ApplyGetRandomKeepoutMask ==
    /\ call.fn = "get_random_keepout_mask" /\ ~call.done
    /\ LET mask == GetRandomKeepoutMask(call.mode, call.image)
       IN call' = [call EXCEPT !.done = TRUE,
                               !.mask = mask,
                               !.plantable = [c \in GridCells |->
                                                ValidPlanting(mask, << >>, c[2], c[1])]]
ApplyDecodeSpecies ==
    /\ call.fn = "decode_species" /\ ~call.done
    /\ call' = [call EXCEPT !.done = TRUE,
                            !.species_idx = DecodeSpeciesIdx(call.i, SpeciesRes, call.n)]
InitDecode ==
    /\ InitOneEnvIdle /\ disk = NoDisk /\ envs = NoEnvs
    /\ call \in MaskCalls \cup SpeciesCalls
NextDecode ==
    \/ ApplyGetRandomKeepoutMask /\ UNCHANGED <<disk, envs>> /\ OneEnvIdle
    \/ ApplyDecodeSpecies /\ UNCHANGED <<disk, envs>> /\ OneEnvIdle
SpecDecode == InitDecode /\ [][NextDecode]_vars

\* the continuous environment with the caller's count: every simulator
\* outcome, no filesystem error, each episode followed until a step ends
\* it, for at most total_seedlings + MaxFailedPlantings + 1 steps
EpisodeOutcomes == StepOutcomes \ {FsError}
InitEpisode == InitBudget
NextEpisode ==
    \/ \E mode \in MaskModes, image \in BudgetShapes :
          /\ Reset(mode, image)
          /\ episode' = NewEpisode
          /\ UNCHANGED <<disk, envs, call, config, history>>
    \/ \E action \in ActionSpace :
          \E outcome \in (IF WouldPlant(action) THEN EpisodeOutcomes ELSE {FsError}) :
             /\ episode.ended_at = 0
             /\ Step(action, outcome)
             /\ Len(seedlings_planted') <= MaxPlanted
             /\ num_failed_plantings' <= MaxFailCount + 1
             /\ episode' = StepCounted(episode, ret')
             /\ episode'.steps <= total_seedlings + MaxFailedPlantings + 1
             /\ UNCHANGED <<disk, envs, call, config, history>>
SpecEpisode == InitEpisode /\ [][NextEpisode]_vars

(***************************************************************************)
(* Properties.                                                             *)
(***************************************************************************)
\* the registry and the seedling target of whichever class was constructed
Registry == IF variant = "continuous" THEN seedlings_planted ELSE seedlings
Target == IF variant = "continuous" THEN total_seedlings ELSE num_seedlings

\* the last call was a step that returned
StepReturned == ret.op = "step" /\ ret.raised = "none"

\* this transition committed a seedling, and the simulator exited with 0 and
\* left a tree table that can be read
CommittedAndEvaluated ==
    /\ Len(Registry') = Len(Registry) + 1
    /\ io'.simulator = "exit0"
    /\ output_db'.exists /\ output_db'.has_tree

RECURSIVE CombinedMass(_, _)
\* the summed stem, branch, coarse-root and fine-root mass of the rows of a year
CombinedMass(rows, year) ==
    IF rows = << >> THEN 0
    ELSE LET r == Head(rows)
         IN (IF r.year = year
             THEN r.stemMass + r.branchMass + r.coarseRootMass + r.fineRootMass
             ELSE 0) + CombinedMass(Tail(rows), year)

\* the latest year of the rows (0 for no rows: no row has mass then)
FinalYear(rows) ==
    IF rows = << >> THEN 0
    ELSE CHOOSE y \in {rows[i].year : i \in 1 .. Len(rows)} :
            \A i \in 1 .. Len(rows) : rows[i].year <= y

\* half the combined mass at the final year, in tenths of a kilogram
CarbonAtFinalYear(rows) == (10 * CombinedMass(rows, FinalYear(rows))) \div 2

\* C1: a step that commits a seedling and whose simulator run succeeds with
\* readable tree output returns reward = carbon - previous_carbon, sets
\* previous_carbon to carbon, returns truncated = False and returns
\* terminated = True exactly when the registry has reached the target; with
\* 100 kg of combined mass and previous_carbon 0.0 the reward is 50.0.
C1_RewardIsCarbonDelta ==
    [][CommittedAndEvaluated =>
         LET carbon == CarbonAtFinalYear(output_db'.rows)
         IN /\ ret'.op = "step" /\ ret'.raised = "none"
            /\ ret'.reward = carbon - previous_carbon
            /\ previous_carbon' = carbon
            /\ ret'.truncated = FALSE
            /\ ret'.terminated = (Len(Registry') >= Target)
            /\ (output_db'.rows = RowsA /\ previous_carbon = 0
                  => ret'.reward = 500 /\ previous_carbon' = 500)]_vars

\* C1 witness: the first step after a reset was evaluated on 100 kg of
\* combined mass: reward 50.0, previous_carbon 50.0, episode not over
C1_Witness ==
    /\ variant = "continuous" /\ StepReturned
    /\ Len(seedlings_planted) = 1 /\ total_seedlings = 2
    /\ io.simulator = "exit0" /\ output_db = TreeTable(RowsA)
    /\ ret.reward = 500 /\ previous_carbon = 500
    /\ ~ret.terminated /\ ~ret.truncated

\* this transition is step(action) on the continuous environment
IsStep(action) ==
    /\ variant = "continuous" /\ ret'.op = "step"
    /\ \E outcome \in (IF WouldPlant(action) THEN StepOutcomes ELSE {FsError}) :
          Step(action, outcome)

\* this transition is an invalid step of the continuous environment
IsInvalidStep == \E action \in ActionSpace : ~WouldPlant(action) /\ IsStep(action)

\* C2: every invalid step of the continuous environment increments the
\* failed-planting counter by one, returns reward -10.0 and terminated =
\* False, leaves the registry as it is, and returns truncated = True exactly
\* when the incremented counter is greater than 10.
C2_InvalidStepPenalty ==
    [][IsInvalidStep =>
         /\ num_failed_plantings' = num_failed_plantings + 1
         /\ ret'.raised = "none"
         /\ ret'.reward = -100
         /\ ret'.terminated = FALSE
         /\ seedlings_planted' = seedlings_planted
         /\ ret'.truncated = (num_failed_plantings' > 10)]_vars

\* C2 witness: the 11th invalid planting since the reset reported truncation
C2_Witness ==
    /\ StepReturned /\ ~ret.info.valid_planting
    /\ num_failed_plantings = 11 /\ ret.truncated /\ ret.reward = -100

\* the cell of the mask that step(action) looks up
TargetCell(action) ==
    LET x_cell == IF action[1] * GridSize >= (GridSize - 1) * ActRes
                  THEN GridSize - 1 ELSE (action[1] * GridSize) \div ActRes
        y_cell == IF action[2] * GridSize >= (GridSize - 1) * ActRes
                  THEN GridSize - 1 ELSE (action[2] * GridSize) \div ActRes
    IN <<y_cell, x_cell>>

\* C3: a step whose decoded cell is not plantable in the mask reports
\* valid_planting = False and leaves the number of seedlings unchanged.
C3_KeepoutCellRejected ==
    [][\A action \in ActionSpace :
          ~keepout[TargetCell(action)] /\ IsStep(action)
             => /\ ret'.raised = "none"
                /\ ret'.info.valid_planting = FALSE
                /\ Len(seedlings_planted') = Len(seedlings_planted)]_vars

\* C3 witness: a step was rejected although the spacing rule could not fail
\* (fewer than two seedlings), so its cell was not plantable
C3_Witness ==
    /\ variant = "continuous" /\ StepReturned
    /\ "valid_planting" \in ret.info.keys /\ ~ret.info.valid_planting
    /\ Len(seedlings_planted) = 1
    /\ \E c \in GridCells : ~keepout[c]

\* the grid cell a stored coordinate lies in
CellOf(c) == IF c >= (GridSize - 1) * ActRes THEN GridSize - 1 ELSE c \div ActRes

\* a committed seedling lies in the cell
CellOccupied(cell) ==
    \E i \in 1 .. Len(seedlings_planted) :
        <<CellOf(seedlings_planted[i][2]), CellOf(seedlings_planted[i][1])>> = cell

\* every two committed seedlings are more than 0.5 grid units apart
SpacingHolds ==
    \A i, j \in 1 .. Len(seedlings_planted) :
        i < j => 4 * SqDist(seedlings_planted[i], seedlings_planted[j]) > ActRes * ActRes

\* the last call was a reset or a step that returned without ending the episode
EpisodeOpen ==
    /\ ret.op \in {"reset", "step"} /\ ret.raised = "none"
    /\ ~ret.terminated /\ ~ret.truncated

\* C4: a step of the continuous environment is valid exactly when the mask
\* is plantable at the target cell, the spacing rule holds and the target
\* cell is not occupied; any other step is an invalid placement (penalty
\* reward, registry unchanged, episode not terminated).  Stated for the
\* steps of an episode that has not ended.
C4_ValidIffPlantableSpacedUnoccupied ==
    [][\A action \in ActionSpace :
          EpisodeOpen /\ IsStep(action) =>
             LET valid == /\ keepout[TargetCell(action)]
                          /\ SpacingHolds
                          /\ ~CellOccupied(TargetCell(action))
             IN /\ (Len(seedlings_planted') = Len(seedlings_planted) + 1) = valid
                /\ (~valid => /\ ret'.raised = "none"
                              /\ ret'.reward = -100
                              /\ ret'.terminated = FALSE
                              /\ seedlings_planted' = seedlings_planted)]_vars

\* the simulator process of the last step failed
SimulatorFailed == io.simulator \in {"nonzero", "launch_error"}

\* C5: when the simulator run of a valid planting step of the continuous
\* environment exits non-zero or cannot be launched, step returns
\* terminated = True and reward -10.0, and the registry holds the seedling
\* committed by this step (one more than before).
C5_SimulationFailureTerminates ==
    [][(variant = "continuous" /\ ret'.op = "step" /\ SimulatorFailed')
         => /\ ret'.raised = "none"
            /\ ret'.terminated = TRUE
            /\ ret'.reward = -100
            /\ Len(seedlings_planted') = Len(seedlings_planted) + 1
            /\ SubSeq(seedlings_planted', 1, Len(seedlings_planted)) = seedlings_planted
       ]_vars

\* C5 witness: the simulator exited non-zero on the second planting
C5_Witness ==
    /\ variant = "continuous" /\ StepReturned
    /\ io.simulator = "nonzero"
    /\ ret.terminated /\ ret.reward = -100
    /\ Len(seedlings_planted) = 2

\* C6: in both environments a simulator process failure during step is not
\* raised to the caller: step returns a tuple with an observation that is
\* not None and terminated = True.
C6_SimulatorFailureIsReturned ==
    SimulatorFailed =>
        /\ ret.op = "step" /\ ret.raised = "none"
        /\ ret.obs # NoObservation
        /\ ret.terminated = TRUE

\* the database file is missing, the tree table is missing, or it has no rows
OutputUnavailable(db) == ~db.exists \/ ~db.has_tree \/ db.rows = << >>

\* C7: when the simulator exits successfully but its output is unavailable
\* (database missing, tree table missing or empty), the step returns
\* normally with terminated = True and the fixed penalty -5.0, which differs
\* from the simulator-failure penalty.
C7_UnavailableOutputTerminates ==
    (ret.op = "step" /\ io.simulator = "exit0" /\ OutputUnavailable(output_db))
        => /\ ret.raised = "none"
           /\ ret.terminated = TRUE
           /\ ret.reward = -50
           /\ ret.reward # SimulationFailedReward

\* C8: a filesystem error during a step (the input file or its directory
\* cannot be created or written) ends in a returned outcome with
\* terminated = True, not in an exception.
C8_FilesystemErrorIsReturned ==
    io.write_failed => ret.raised = "none" /\ ret.terminated = TRUE

\* C9: reset, from any state, leaves an empty registry, previous_carbon 0.0
\* and the failed-planting counter 0 (the grid-walker keeps no such
\* counter), and returns an initial observation (the mask's base values in
\* the continuous environment, the agent alone on the grid in the
\* grid-walker).
C9_ResetClearsEpisode ==
    ret.op = "reset" =>
        /\ Registry = << >>
        /\ previous_carbon = 0
        /\ (variant = "continuous" => num_failed_plantings = 0)
        /\ ret.raised = "none"
        /\ ret.obs # NoObservation
        /\ (variant = "continuous" =>
              \A c \in GridCells : ret.obs[c] = IF keepout[c] THEN 0 ELSE 1)
        /\ (variant = "walker" =>
              \A c \in GridCells :
                 ret.obs[c] = IF c = <<agent_location[2], agent_location[1]>>
                              THEN "agent" ELSE "empty")

\* C9 witness: a reset of a continuous environment whose earlier episode
\* ran the simulator
C9_Witness ==
    /\ variant = "continuous" /\ ret.op = "reset"
    /\ output_db = TreeTable(RowsA)
    /\ \E c \in GridCells : ~keepout[c]

\* C10: the number of committed seedlings never exceeds the seedling target.
C10_RegistryWithinTarget == Len(Registry) <= Target

\* C11: every step leaves the registry's earlier contents as an unchanged
\* prefix and adds at most one seedling (both environments; only reset
\* empties the registry).
C11_RegistryAppendOnly ==
    [][ret'.op = "step"
         => /\ Len(Registry') \in {Len(Registry), Len(Registry) + 1}
            /\ SubSeq(Registry', 1, Len(Registry)) = Registry]_vars

\* C11 witness: a step committed a second seedling behind a different first
\* one
C11_Witness ==
    /\ StepReturned /\ Len(Registry) = 2 /\ Registry[1] # Registry[2]
    /\ io.simulator = "exit0"

\* C12: in the continuous environment, whatever the actions and the
\* simulator outcomes, some step among the first total_seedlings + 11 steps
\* after a reset returns terminated = True or truncated = True.
C12_EpisodeBounded ==
    (variant = "continuous" /\ episode.ended_at = 0)
        => episode.steps < total_seedlings + 11

\* C12 witness: the longest episode: total_seedlings - 1 plantings and
\* MaxFailedPlantings invalid steps before the step that ends it
C12_Witness ==
    /\ variant = "continuous"
    /\ episode.ended_at = total_seedlings + MaxFailedPlantings
    /\ episode.steps = episode.ended_at

\* the instance was constructed: its constructor returned
Constructed(e) == e.pc \in {"idle", "written", "running", "ran"}

\* the paths a grid-walker instance writes or has written for it: its input
\* file, its private configuration, the database it reads and the database
\* its configuration names
WrittenPaths(e) ==
    {InputPathOf(e), e.xml_path, OutputPathOf(e)}
    \cup (IF ConfigUsable(disk, e) THEN {SimulatorOutputPath(disk, e)} ELSE {})

\* C13: two grid-walker instances constructed with different process_index
\* values share no written file path, and under every interleaving each
\* instance's input file lists that instance's own seedlings only.
C13_WalkerWorkspacesIsolated ==
    /\ \A i, j \in Envs :
          (/\ i # j
           /\ envs[i].kind = "walker" /\ Constructed(envs[i])
           /\ envs[j].kind = "walker" /\ Constructed(envs[j])
           /\ envs[i].process_index # envs[j].process_index)
             => WrittenPaths(envs[i]) \cap WrittenPaths(envs[j]) = {}
    /\ \A i \in Envs :
          (envs[i].kind = "walker" /\ Constructed(envs[i]))
             => disk[InputPathOf(envs[i])] \in {Absent, File(i, envs[i].count)}

\* C13 witness: two grid-walker instances, each with a seedling in its own
\* input file, one of them with its simulator running
C13_Witness ==
    /\ envs[1].kind = "walker" /\ envs[2].kind = "walker"
    /\ envs[1].pc = "running" /\ envs[2].pc = "written"
    /\ disk[InputPathOf(envs[1])] = File(1, 1)
    /\ disk[InputPathOf(envs[2])] = File(2, 2)

\* C14: for any two instances of either class stepping in separate
\* processes, the input file an instance wrote is still its own when its
\* simulator runs, and the output it reads was written by its own
\* simulator run.
C14_NoInterference ==
    \A i \in Envs :
       /\ envs[i].pc \in {"written", "running"}
             => disk[InputPathOf(envs[i])] = File(i, envs[i].count)
       /\ envs[i].last = "sim" /\ envs[i].pc = "ran"
             => envs[i].simulated = File(i, envs[i].count)
       /\ envs[i].last = "read" => envs[i].seen = File(i, envs[i].count)

\* the template configuration parses
TemplateUsable == disk[TemplatePath].kind = "file" /\ disk[TemplatePath].form = "xml"

\* C15: whatever the directory of a process_index held before, acquiring
\* the workspace leaves it holding only the freshly copied, rewritten
\* configuration.
C15_AcquireLeavesCleanDirectory ==
    \A i \in Envs :
       (/\ envs[i].kind = "walker" /\ envs[i].pc = "idle"
        /\ envs[i].last = "acquire" /\ TemplateUsable)
          => \A name \in DirNames :
                disk[Join(envs[i].process_dir, name)] =
                   IF name = "project.xml"
                   THEN Xml(i, "xml", Join(envs[i].process_dir, "output.sqlite"))
                   ELSE Absent

\* C16: when the template configuration is missing or does not parse, or
\* the workspace directory cannot be created, construction aborts: no
\* instance comes out of it.
C16_ConfigurationErrorAborts ==
    \A i \in Envs :
       (envs[i].kind = "walker" /\ ~TemplateUsable) => ~Constructed(envs[i])

\* C17: while a simulator runs on a workspace, the clear-then-populate
\* reset of that workspace has completed and no other reset of it is under
\* way.
C17_ResetBeforeSimulator ==
    \A i \in Envs :
       (envs[i].kind = "walker" /\ envs[i].pc = "running")
          => /\ envs[i].process_dir = ProcessDir(envs[i].process_index)
             /\ disk[envs[i].xml_path].by = i
             /\ \A j \in Envs \ {i} :
                   (envs[j].kind = "walker" /\ envs[j].pc = "cleared")
                      => ProcessDir(envs[j].process_index) # envs[i].process_dir

\* C17 witness: one instance is inside its workspace reset while the
\* simulator of the other runs
C17_Witness ==
    /\ envs[1].kind = "walker" /\ envs[1].pc = "cleared"
    /\ envs[2].kind = "walker" /\ envs[2].pc = "running"

\* C18: action decoding yields x and y in [0, grid_size - 1] and a species
\* index in [0, species_count - 1] for every action vector: every seedling
\* that step commits carries coordinates and a species in these ranges.
C18_DecodedInRange ==
    \A i \in 1 .. Len(seedlings_planted) :
       /\ seedlings_planted[i][1] \in 0 .. ((GridSize - 1) * ActRes)
       /\ seedlings_planted[i][2] \in 0 .. ((GridSize - 1) * ActRes)
       /\ seedlings_planted[i][3] \in 0 .. (Len(SpeciesNames) - 1)

\* the rows in the order given by the permutation p of their indices
Permuted(rows, p) == [i \in 1 .. Len(rows) |-> rows[p[i]]]

\* C19: total_carbon is 0.5 times the sum, over the rows of the requested
\* year, of stem, branch, coarse-root and fine-root mass; it does not depend
\* on the order of the rows and is 0.0 when no row matches.
C19_TotalCarbonIsHalfMassOfYear ==
    (call.fn = "get_total_carbon" /\ call.done)
       => /\ call.carbon = (10 * CombinedMass(call.rows, call.year)) \div 2
          /\ \A p \in Permutations(1 .. Len(call.rows)) :
                GetTotalCarbon(Permuted(call.rows, p), call.year) = call.carbon
          /\ (\A i \in 1 .. Len(call.rows) : call.rows[i].year # call.year)
                => call.carbon = 0

\* C19 witness: three rows, two of the requested year and one of another,
\* the two carrying different foliage
C19_Witness ==
    /\ call.fn = "get_total_carbon" /\ call.done
    /\ call.rows = <<TreeRow(9, 30, 10, 5, 1, 3), TreeRow(10, 40, 10, 8, 2, 7),
                     TreeRow(10, 25, 8, 5, 2, 4)>>
    /\ call.year = 10 /\ call.carbon = 500

\* C20: min_pairwise_distance is +infinity for 0 or 1 seedlings; for two or
\* more it is the smallest distance of any two seedlings (compared here by
\* its square), finite and >= 0, and 0 exactly when two seedlings share a
\* position.
C20_SmallestDistanceIsPairMinimum ==
    (call.fn = "get_smallest_seedling_distance" /\ call.done)
       => LET r == call.registry
              d == call.distance
              Pairs == {q \in (1 .. Len(r)) \X (1 .. Len(r)) : q[1] < q[2]}
          IN IF Len(r) < 2 THEN d.inf
             ELSE /\ ~d.inf /\ d.sq >= 0
                  /\ \E q \in Pairs : SqDist(r[q[1]], r[q[2]]) = d.sq
                  /\ \A q \in Pairs : SqDist(r[q[1]], r[q[2]]) >= d.sq
                  /\ (d.sq = 0) =
                        (\E q \in Pairs : /\ r[q[1]][1] = r[q[2]][1]
                                          /\ r[q[1]][2] = r[q[2]][2])

\* C20 witness: three seedlings whose closest pair is the first and the last
C20_Witness ==
    /\ call.fn = "get_smallest_seedling_distance" /\ call.done
    /\ call.registry = <<<<0, 0, 0>>, <<2, 2, 0>>, <<0, 1, 0>>>>
    /\ ~call.distance.inf /\ call.distance.sq = 1

\* C21: every step of the continuous environment that returns gives an info
\* record whose planted_seedlings equals the number of seedlings committed
\* when the step returns (the one committed by this step included), whose
\* valid_planting equals the step's validity decision and whose total_carbon,
\* on an evaluated step, equals the updated previous_carbon.
C21_InfoMatchesState ==
    [][\A action \in ActionSpace :
          (IsStep(action) /\ ret'.raised = "none")
             => /\ ret'.info.planted_seedlings = Len(seedlings_planted')
                /\ ret'.info.valid_planting = WouldPlant(action)
                /\ ("total_carbon" \in ret'.info.keys
                      => ret'.info.total_carbon = previous_carbon')]_vars

\* C22: two resets of the continuous environment with the same seed produce
\* the same keepout mask, whatever calls were made before each of them: the
\* resets with one seed have produced one mask at most.
C22_SeededResetReproducible ==
    \A seed \in Seeds : Cardinality(history.masks[seed]) <= 1

\* this transition is step(action) on the grid-walker environment
IsWalkerStep(action) ==
    /\ variant = "walker" /\ ret'.op = "step"
    /\ \E species \in (IF action > 3 THEN ClusterSpecies[action - 3] ELSE {""}) :
          \E outcome \in StepOutcomes : WalkerStep(action, species, outcome)

\* the cells that hold a seedling of the grid-walker's registry, as <<x, y>>
PlantedCells == { <<seedlings[i].x, seedlings[i].y>> : i \in 1 .. Len(seedlings) }

\* C23: in the grid-walker environment a plant action issued while the
\* cursor cell already holds a seedling returns reward 0, terminated = False
\* and truncated = False, leaves the registry, the cursor and previous_carbon
\* unchanged, writes no input file and does not start the simulator.
C23_PlantOnOccupiedRejected ==
    [][\A action \in WalkerActions :
          (/\ action > 3 /\ agent_location # << >>
           /\ <<agent_location[1], agent_location[2]>> \in PlantedCells
           /\ IsWalkerStep(action))
             => /\ ret'.raised = "none"
                /\ ret'.reward = 0 /\ ~ret'.terminated /\ ~ret'.truncated
                /\ seedlings' = seedlings
                /\ agent_location' = agent_location
                /\ previous_carbon' = previous_carbon
                /\ ~io'.input_written.exists /\ ~io'.write_failed
                /\ io'.simulator = "not_run"
                /\ output_db' = output_db]_vars

\* C23 witness: the state a rejected plant action leaves: a step returned
\* reward 0 on the cell of the only seedling, whose evaluation (previous_carbon
\* 50.0) stands, and touched neither the input file nor the simulator
C23_Witness ==
    /\ variant = "walker" /\ StepReturned
    /\ Len(seedlings) = 1 /\ num_seedlings = 2
    /\ <<agent_location[1], agent_location[2]>> \in PlantedCells
    /\ ret.reward = 0 /\ ~ret.terminated /\ ~ret.truncated
    /\ previous_carbon = 500
    /\ io = NoIo

\* where a movement action points from a cell: right, up, left, down
Neighbour(action, cell) ==
    CASE action = 0 -> <<cell[1] + 1, cell[2]>>
      [] action = 1 -> <<cell[1], cell[2] + 1>>
      [] action = 2 -> <<cell[1] - 1, cell[2]>>
      [] action = 3 -> <<cell[1], cell[2] - 1>>

\* C24: in the grid-walker environment the cursor, once reset has placed
\* it, stays inside the grid; a movement action moves it by exactly one cell
\* in its direction, or leaves it where it is when that cell is outside the
\* grid, returns reward 0, terminated = False and truncated = False, and
\* touches neither the registry nor the simulator.
C24_CursorStaysInGrid ==
    [][/\ (variant = "walker" /\ agent_location' # << >>)
             => /\ agent_location'[1] \in 0 .. (GridSize - 1)
                /\ agent_location'[2] \in 0 .. (GridSize - 1)
       /\ \A action \in 0 .. 3 :
             (agent_location # << >> /\ IsWalkerStep(action))
                => LET target == Neighbour(action, agent_location)
                   IN /\ agent_location' = IF target \in GridCells THEN target
                                           ELSE agent_location
                      /\ ret'.raised = "none"
                      /\ ret'.reward = 0 /\ ~ret'.terminated /\ ~ret'.truncated
                      /\ seedlings' = seedlings
                      /\ previous_carbon' = previous_carbon
                      /\ io' = NoIo /\ output_db' = output_db]_vars

\* C24 witness: a movement step has left the cursor in the grid's far corner,
\* next to a planted cell, with the registry and its evaluation intact
C24_Witness ==
    /\ variant = "walker" /\ StepReturned
    /\ agent_location = <<GridSize - 1, GridSize - 1>>
    /\ Len(seedlings) = 1
    /\ <<agent_location[1], agent_location[2]>> \notin PlantedCells
    /\ ret.reward = 0 /\ ~ret.terminated /\ ~ret.truncated
    /\ previous_carbon = 500 /\ io = NoIo

\* C25: in the grid-walker environment, from the state a reset leaves, every
\* infinite sequence of step calls contains a step that returns
\* terminated = True or truncated = True.  A step that raises is let count
\* as the end of the sequence as well, so that only a sequence of steps that
\* all return without ending the episode refutes the statement.
C25_WalkerEpisodeEnds ==
    <>(ret.op = "step" /\ (ret.raised # "none" \/ ret.terminated \/ ret.truncated))

\* the data line the input file must hold for a seedling of the registry:
\* its coordinates to two decimals (in hundredths), its species code and the
\* fixed diameter, height and age
LineOf(s) ==
    IF variant = "continuous"
    THEN [x |-> (100 * s[1]) \div ActRes, y |-> (100 * s[2]) \div ActRes,
          species |-> SpeciesNames[s[3] + 1], dbh |-> "2.0", height |-> "1.0",
          age |-> "0"]
    ELSE [x |-> 100 * s.x, y |-> 100 * s.y, species |-> s.species,
          dbh |-> "2.0", height |-> "1.0", age |-> "0"]

\* C26: whenever a step has started the simulator, the same step has
\* written the input file, and the file consists of the fixed header and
\* exactly one data line per seedling of the registry, the seedling committed
\* by this step included, in commit order.
C26_InputFileIsRegistry ==
    (ret.op = "step" /\ io.simulator # "not_run")
       => /\ io.input_written.exists
          /\ io.input_written.header = "x;y;species;dbh;height;age"
          /\ Len(io.input_written.lines) = Len(Registry)
          /\ \A i \in 1 .. Len(Registry) :
                io.input_written.lines[i] = LineOf(Registry[i])

\* C26 witness: the simulator ran on a file of two lines, a piab at the
\* origin first and a fasy at the far corner second, as they were committed
\* by two evaluated steps (the second found the carbon of the first)
C26_Witness ==
    /\ variant = "continuous" /\ StepReturned /\ io.simulator = "exit0"
    /\ total_seedlings = 2 /\ previous_carbon = 500 /\ ret.reward = 0
    /\ seedlings_planted = << <<0, 0, 0>>, <<GridSize * ActRes, GridSize * ActRes, 1>> >>
    /\ Len(io.input_written.lines) = 2
    /\ io.input_written.lines[1].species = "piab"
    /\ io.input_written.lines[2].species = "fasy"
    /\ io.input_written.lines[2].x = 100 * GridSize

\* C27: every simulator invocation of an instance is given three arguments:
\* the executable, the instance's own configuration path (for a grid-walker
\* instance the project.xml of its process directory) and the number of
\* years the instance was constructed with.
C27_SimulatorGetsConfigAndYears ==
    (ret.op = "step" /\ io.simulator # "not_run")
       => /\ Len(io.args) = 3
          /\ io.args[2] # << >>
          /\ (variant = "walker"
                => io.args[2] = Join(ProcessDir(config.process_index), "project.xml"))
          /\ io.args[3] = Str(config.years)

\* the cells, as <<row, column>>, that hold a seedling of the registry, and
\* the seedling committed last in a cell
SeedlingsIn(cell) ==
    { i \in 1 .. Len(seedlings_planted) :
        <<CellOf(seedlings_planted[i][2]), CellOf(seedlings_planted[i][1])>> = cell }
LastIn(cell) == CHOOSE i \in SeedlingsIn(cell) : \A j \in SeedlingsIn(cell) : j <= i

\* C29: an observation of the continuous environment has one value per
\* grid cell: 2 + species_index of the seedling committed last in the cell
\* when the cell holds a seedling, else 1 when the mask marks the cell
\* non-plantable and 0 when plantable; every value lies in
\* [0, species_count + 2).
C29_ObservationFromMaskAndRegistry ==
    (variant = "continuous" /\ ret.obs # NoObservation)
       => /\ DOMAIN ret.obs = GridCells
          /\ \A cell \in GridCells :
                /\ ret.obs[cell] =
                      IF SeedlingsIn(cell) # {}
                      THEN 2 + seedlings_planted[LastIn(cell)][3]
                      ELSE IF keepout[cell] THEN 0 ELSE 1
                /\ ret.obs[cell] \in 0 .. (Len(SpeciesNames) + 1)

\* C29 witness: get_observation on a registry of two seedlings of different
\* species in the column-1 cell of row 0, which shows the species of the
\* second, with a keepout cell and an empty plantable cell on the grid
C29_Witness ==
    /\ variant = "continuous" /\ ret.op = "get_observation"
    /\ Len(seedlings_planted) = 2 /\ total_seedlings = 2 /\ previous_carbon = 500
    /\ seedlings_planted[1][3] = 1 /\ seedlings_planted[2][3] = 0
    /\ SeedlingsIn(<<0, 1>>) = {1, 2}
    /\ ret.obs[<<0, 1>>] = 2
    /\ \E cell \in GridCells : ret.obs[cell] = 1
    /\ \E cell \in GridCells : ret.obs[cell] = 0

\* C30: get_observation, render and close leave the registry, the mask,
\* previous_carbon and the failure counter as they were, and a
\* get_observation that follows another with no reset or step in between
\* (render and close may come in between) returns an equal observation.
C30_ObserveRenderCloseChangeNothing ==
    [][ret'.op \in {"get_observation", "render", "close"}
         => /\ seedlings_planted' = seedlings_planted
            /\ keepout' = keepout
            /\ previous_carbon' = previous_carbon
            /\ num_failed_plantings' = num_failed_plantings
            /\ (ret'.op = "get_observation" /\ history.obs # NoObservation)
                  => ret'.obs = history.obs]_vars

\* C30 witness: with two seedlings planted, one failed planting and carbon
\* stored, get_observation was called and then render drew the state in a
\* window
C30_Witness ==
    /\ variant = "continuous" /\ ret.op = "render"
    /\ io.shown.mode = "human" /\ io.shown.planted = 2 /\ io.shown.carbon = 500
    /\ history.obs = GetObservation(keepout, seedlings_planted)
    /\ Len(seedlings_planted) = 2 /\ num_failed_plantings = 1
    /\ total_seedlings = 2 /\ previous_carbon = 500

\* C28: a step of the continuous environment that reports an invalid
\* planting adds one to the failure counter and does nothing else: it writes
\* no input file, starts no simulator, reads no output database, and leaves
\* the registry, the keepout mask and previous_carbon unchanged.
C28_InvalidStepChangesCounterOnly ==
    [][(/\ variant = "continuous" /\ ret'.op = "step" /\ ret'.raised = "none"
        /\ "valid_planting" \in ret'.info.keys /\ ~ret'.info.valid_planting)
         => /\ num_failed_plantings' = num_failed_plantings + 1
            /\ ~io'.input_written.exists /\ ~io'.write_failed
            /\ io'.simulator = "not_run"
            /\ ~io'.output_read
            /\ output_db' = output_db
            /\ seedlings_planted' = seedlings_planted
            /\ keepout' = keepout
            /\ previous_carbon' = previous_carbon]_vars

\* C28 witness: an invalid step taken in an episode that holds one evaluated
\* seedling: the seedling, its carbon and the output database are still there
C28_Witness ==
    /\ variant = "continuous" /\ StepReturned
    /\ "valid_planting" \in ret.info.keys /\ ~ret.info.valid_planting
    /\ num_failed_plantings = 1 /\ io = NoIo
    /\ total_seedlings = 2 /\ Len(seedlings_planted) = 1
    /\ previous_carbon = 500 /\ output_db = TreeTable(RowsA)
    /\ \E c \in GridCells : ~keepout[c]

\* the masks get_random_keepout_mask can return for the images explored
GeneratedMasks ==
    {GetRandomKeepoutMask(mode, image) : mode \in MaskModes, image \in RandomShapes}

\* C31: the keepout mask is read-only during an episode.  No step, whether
\* it is valid, invalid or failing (a raising one included), changes the
\* mask; a call that changes the mask is a reset; and a reset replaces the
\* mask and the registry together: it leaves a generated mask and an empty
\* registry, and returns the observation of that mask alone.
C31_MaskReadOnlyInEpisode ==
    [][/\ (ret'.op = "step" => keepout' = keepout)
       /\ (keepout' # keepout => ret'.op = "reset")
       /\ (ret'.op = "reset" =>
             /\ keepout' \in GeneratedMasks
             /\ seedlings_planted' = << >>
             /\ ret'.obs = [c \in GridCells |-> IF keepout'[c] THEN 0 ELSE 1])]_vars

\* a second seedling has been committed under a mask that has both
\* plantable and keepout cells, after an invalid step of the same episode
C31_Witness ==
    /\ variant = "continuous"
    /\ StepReturned /\ ret.info.valid_planting /\ ret.reward = 0
    /\ Len(seedlings_planted) = 2 /\ total_seedlings = 2 /\ previous_carbon = 500
    /\ num_failed_plantings = 1
    /\ \E c, d \in GridCells : keepout[c] /\ ~keepout[d]

\* the pixel lies inside a generated shape
InShape(image, c) == image[c] < Background

\* C32: the generated mask has the polarity of its mode, True meaning
\* plantable.  In exclusion mode a cell is plantable exactly when it lies
\* outside all generated shapes, in inclusion mode exactly when it lies
\* inside some generated shape.
C32_MaskHasPolarityOfMode ==
    (call.fn = "get_random_keepout_mask" /\ call.done) =>
       \A c \in GridCells :
          /\ call.plantable[c] = call.mask[c]
          /\ call.plantable[c] = (IF call.mode = "exclusion"
                                  THEN ~InShape(call.image, c)
                                  ELSE InShape(call.image, c))

\* C33: for every third action component a in [-1,1] and every species
\* count of 1 or more, the decoded species index is the integer nearest to
\* ((a + 1) / 2) * (species_count - 1), within [0, species_count - 1].  With
\* a = -1 + 2 * i / SpeciesRes the number to round is i * (n - 1) / SpeciesRes,
\* and an index is nearest when it is no more than a half away from it.
C33_SpeciesIndexIsNearest ==
    (call.fn = "decode_species" /\ call.done) =>
       LET scaled == call.i * (call.n - 1)
           off == call.species_idx * SpeciesRes - scaled
       IN /\ call.species_idx \in 0 .. (call.n - 1)
          /\ 2 * off <= SpeciesRes
          /\ 2 * (0 - off) <= SpeciesRes

\* the last call was a step that returned a reward computed from the carbon
\* read out of the output database
RewardFromCarbon == StepReturned /\ io.output_read /\ ~ret.truncated

\* C34: a carbon-based reward is always computed from tree rows written by
\* the simulator run invoked in the same step; output left in the database
\* by an earlier run is never used, even when the current run exits
\* successfully without writing new output.
C34_RewardFromThisRunsOutput ==
    RewardFromCarbon => history.run_wrote

\* C35: in the continuous environment, after any sequence of steps since
\* the last reset, every two committed seedlings are more than 0.5 grid
\* units apart.
C35_CommittedSeedlingsSpaced ==
    (variant = "continuous" /\ Len(seedlings_planted) >= 2) => SpacingHolds

\* C36: in the continuous environment, once the registry holds two
\* seedlings at distance <= 0.5, every later step of that episode is invalid
\* whatever action is chosen: it is reported invalid with the penalty, no
\* further seedling is committed (so a target not yet reached stays out of
\* reach), the step does not terminate the episode, and it truncates it
\* exactly when the failure budget is used up.
C36_CrowdedRegistryBlocksPlanting ==
    [][(variant = "continuous" /\ ~SpacingHolds /\ ret'.op = "step") =>
          /\ ret'.raised = "none"
          /\ ~ret'.info.valid_planting
          /\ ret'.reward = -100
          /\ seedlings_planted' = seedlings_planted
          /\ num_failed_plantings' = num_failed_plantings + 1
          /\ ~ret'.terminated
          /\ ret'.truncated = (num_failed_plantings' > 10)]_vars

\* two seedlings stand on the same spot, short of a target of three, and the
\* eleventh invalid step since the reset has truncated the episode
C36_Witness ==
    /\ variant = "continuous"
    /\ Len(seedlings_planted) = 2 /\ ~SpacingHolds /\ total_seedlings = 3
    /\ previous_carbon = 500
    /\ StepReturned /\ ~ret.info.valid_planting
    /\ ret.truncated /\ ~ret.terminated /\ num_failed_plantings = 11
    /\ keepout[<<GridIndex(seedlings_planted[2][2]), GridIndex(seedlings_planted[2][1])>>]

\* the cell [row, column] of the i-th committed seedling
CellOfSeedling(i) ==
    <<CellOf(seedlings_planted[i][2]), CellOf(seedlings_planted[i][1])>>

\* C37: in every reachable state of the continuous environment, each
\* committed seedling lies on a cell that the current episode's mask marks
\* plantable, and that cell is the one the observation draws it in: the
\* observation shows a species there, never an empty or a keepout cell.
C37_SeedlingsOnPlantableCells ==
    variant = "continuous" =>
       \A i \in 1 .. Len(seedlings_planted) :
          /\ keepout[CellOfSeedling(i)]
          /\ GetObservation(keepout, seedlings_planted)[CellOfSeedling(i)] >= 2
          /\ (ret.op \in {"reset", "step"} /\ ret.raised = "none") =>
                ret.obs[CellOfSeedling(i)] >= 2

\* two seedlings stand in different cells of a mask that has a keepout cell
\* off the diagonal and its mirror cell plantable
C37_Witness ==
    /\ variant = "continuous"
    /\ StepReturned /\ ret.info.valid_planting /\ ret.reward = 0
    /\ Len(seedlings_planted) = 2 /\ total_seedlings = 2 /\ previous_carbon = 500
    /\ CellOfSeedling(1) # CellOfSeedling(2)
    /\ \E c \in GridCells : c = CellOfSeedling(2) /\ ~keepout[<<c[2], c[1]>>]

\* the fixed rewards of the steps that are not evaluated: -10.0 and -5.0 in
\* the continuous environment; 0 for a move or a plant action on an occupied
\* cell of the grid-walker
FixedRewards == IF variant = "continuous" THEN {-100, -50} ELSE {0}

\* C38: in any episode, the sum of the rewards returned by the successfully
\* evaluated planting steps since the last reset equals the current
\* previous_carbon; a step that is invalid or fails leaves previous_carbon
\* unchanged, and what it returns is a fixed penalty.
C38_RewardsTelescope ==
    /\ [](history.evaluated = previous_carbon)
    /\ [][(ret'.op = "step" /\ ~Evaluated(ret', io')) =>
             /\ previous_carbon' = previous_carbon
             /\ ret'.raised = "none" => ret'.reward \in FixedRewards]_vars

\* a second evaluated step has returned a negative carbon delta: 80.0 kg
\* were read after the first seedling, 50.0 kg after the second
C38_Witness ==
    /\ variant = "continuous"
    /\ StepReturned /\ Evaluated(ret, io) /\ ret.reward = -300
    /\ Len(seedlings_planted) = 2 /\ total_seedlings = 2
    /\ previous_carbon = 500 /\ history.evaluated = 500
    /\ num_failed_plantings = 1

\* C39: a step of the continuous environment returns truncated = True only
\* if the failed-planting count of the current episode is greater than 10;
\* a step that ends the episode because the simulation failed or its output
\* was unavailable reports terminated = True without truncated = True.
C39_TruncatedOnlyOverBudget ==
    (variant = "continuous" /\ StepReturned) =>
       /\ ret.truncated => num_failed_plantings > 10
       /\ (SimulatorFailed
           \/ (io.output_read /\ (~output_db.exists \/ ~output_db.has_tree))) =>
             ret.terminated /\ ~ret.truncated

\* C40: in the grid-walker environment, after any sequence of movement and
\* plant actions since the last reset, no two committed seedlings occupy the
\* same grid cell.
C40_OneSeedlingPerCell ==
    variant = "walker" =>
       \A i, j \in 1 .. Len(seedlings) :
          i # j => <<seedlings[i].x, seedlings[i].y>> # <<seedlings[j].x, seedlings[j].y>>

\* the agent has planted, walked to a neighbouring cell and planted there,
\* which completed the target of two
C40_Witness ==
    /\ variant = "walker"
    /\ StepReturned /\ ret.terminated /\ ret.reward = 0
    /\ Len(seedlings) = 2 /\ num_seedlings = 2 /\ previous_carbon = 500
    /\ agent_location = <<seedlings[2].x, seedlings[2].y>>
    /\ <<seedlings[1].x, seedlings[1].y>> # agent_location

=============================================================================
